---- MODULE Spec2Model ----
(***************************************************************************)
(* Event lifecycle, registration / ticketing and attendance engine of the  *)
(* event-management backend (backend/routes/event.js and the Mongoose      *)
(* schemas Event and Registration).                                        *)
(*                                                                         *)
(* The durable state is the Event collection and the Registration          *)
(* collection.  Every HTTP handler is an async function: between two       *)
(* awaited storage operations other requests may run, so a handler is a    *)
(* small process whose steps are the awaited storage operations, each      *)
(* taken together with the synchronous code around it.  A handler works on *)
(* the documents it loaded (its own copy); document.save() writes the      *)
(* paths the handler modified, as absolute values ($set), to the stored    *)
(* document with the same _id.  Registration.create() inserts and is       *)
(* refused by either unique index of the Registration collection.          *)
(* Reads of the User and Organizer collections, which no handler modelled  *)
(* here writes, are folded into the step that follows them.                *)
(***************************************************************************)
EXTENDS Integers, Sequences, FiniteSets, TLC

\* ------------------------------------------------------------------ bounds
NumReq    == 2      \* request slots that may be in flight together
MaxTime   == 2      \* the clock runs over 0..MaxTime
MaxStock  == 2      \* largest initial stock of the variant
MaxQty    == 2      \* largest quantity a request asks for
MaxLimit  == 1      \* largest registrationLimit drawn initially
RandVals  == 2      \* distinct values of the random part of a ticket id

\* --------------------------------------------------------------- universe
Req          == 1..NumReq
Events       == {"e1", "e2"}
Participants == {"p1", "p2"}
Organizers   == {"o1", "o2"}
Variants     == {"v1"}
VariantArgs  == Variants \cup {"vX", "none"}     \* "vX": not on the event
Undefined    == -1      \* a Number/Date path that is not set
NoTicket     == <<>>    \* ticketId absent
BogusTicket  == <<0, 0>>   \* a ticket string no registration holds
NoReg        == 0

participantType(p) == IF p = "p1" THEN "iiit" ELSE "non-iiit"

VARIABLES
    now,       \* wall clock (new Date(), Date.now())
    events,    \* Event collection: event id -> stored document
    regs,      \* Registration collection: sequence of stored documents, _id = index
    req,       \* request slots: position and locals of each handler invocation
    resp,      \* the response being sent (NoResp: none)
    issued,    \* history: success responses of register / place order per (event, participant)
    asCreated, \* history: the Event documents as they were created
    accounts   \* User accounts, Organizer profiles, forum Messages and
               \* PasswordResetRequests, by organizer and by event

vars == <<now, events, regs, req, resp, issued, asCreated, accounts>>

\* --------------------------------------------------------- pure functions
getEffectiveStatusAt_NoSticky(ev, t) ==
    IF ev.statusOverride \in {"Draft", "Closed"} THEN ev.statusOverride
    ELSE IF t < ev.startDate THEN "Published"
    ELSE IF t >= ev.startDate /\ t <= ev.endDate THEN "Ongoing"
    ELSE "Completed"

getEffectiveStatusAt_OpenEnd(ev, t) ==
    IF ev.statusOverride \in {"Draft", "Closed"} THEN ev.statusOverride
    ELSE IF ev.statusOverride = "Completed" THEN "Completed"
    ELSE IF t < ev.startDate THEN "Published"
    ELSE IF t >= ev.startDate /\ t < ev.endDate THEN "Ongoing"
    ELSE "Completed"

\* getEffectiveStatus(event), evaluated at time t
getEffectiveStatusAt(ev, t) ==
    IF ev.statusOverride \in {"Draft", "Closed"} THEN ev.statusOverride
    ELSE IF ev.statusOverride = "Completed" THEN "Completed"
    ELSE IF t < ev.startDate THEN "Published"
    ELSE IF t >= ev.startDate /\ t <= ev.endDate THEN "Ongoing"
    ELSE "Completed"

getEffectiveStatus(ev) == getEffectiveStatusAt(ev, now)

\* the effectiveStatus virtual of the Event schema, evaluated at time t
effectiveStatusAt(ev, t) ==
    IF ev.statusOverride \in {"Draft", "Closed"} THEN ev.statusOverride
    ELSE IF ev.statusOverride = "Completed" THEN "Completed"
    ELSE IF t < ev.startDate THEN "Published"
    ELSE IF t >= ev.startDate /\ t <= ev.endDate THEN "Ongoing"
    ELSE "Completed"

\* generateTicketId(): `TKT-${Date.now()}-${random}`
generateTicketId(rnd) == <<now, rnd>>

RegIds == 1..Len(regs)

\* Registration.find({eventId, participantId}) as a set of _ids
RegsOf(e, p) == {g \in RegIds : regs[g].eventId = e /\ regs[g].participantId = p}

\* Registration.countDocuments({eventId})
countDocuments(e) == Cardinality({g \in RegIds : regs[g].eventId = e})

\* Registration.findOne({ticketId})
RegsWithTicket(t) == {g \in RegIds : regs[g].ticketId = t}

\* pastOrders.reduce((sum, r) => sum + (r.quantity || 0), 0)
RECURSIVE SumQty(_)
SumQty(S) == IF S = {} THEN 0
             ELSE LET g == CHOOSE x \in S : TRUE
                  IN regs[g].quantity + SumQty(S \ {g})

\* the unique indexes of the Registration collection:
\* {eventId, participantId} unique, and ticketId unique + sparse
PairIndexRefuses_NoIndex(doc) == FALSE

PairIndexRefuses(doc) == RegsOf(doc.eventId, doc.participantId) # {}

TicketIndexRefuses_NoIndex(g, t) == FALSE

TicketIndexRefuses(g, t) ==
    t # NoTicket /\ \E h \in RegIds : h # g /\ regs[h].ticketId = t

IndexRefusesInsert(doc) ==
    PairIndexRefuses(doc) \/ TicketIndexRefuses(NoReg, doc.ticketId)

\* a new Registration document with the schema defaults
NewRegistration(e, p, t, v, q, ps) ==
    [eventId |-> e, participantId |-> p, ticketId |-> t,
     variantId |-> v, quantity |-> q, paymentStatus |-> ps,
     paymentProofUrl |-> FALSE,
     attended |-> FALSE, attendanceTimestamp |-> Undefined,
     manualOverride |-> FALSE, overrideReason |-> FALSE,
     overriddenBy |-> "none"]

SavedStock_Unchanged(stored, copy, v) == stored.merchandiseVariants[v]

\* the stored stock after event.save() of a copy whose variant stock was modified
SavedStock(stored, copy, v) == copy.merchandiseVariants[v]

\* a deleted document is absent from the collection
NoDoc == [type |-> "none"]

\* save() of a document that is no longer stored throws DocumentNotFoundError
SaveFails(stored) == stored = NoDoc

\* ----------------------------------------------------------- request slots

IdleReq ==
    [pc |-> "idle", kind |-> "none", ev |-> "none", who |-> "none",
     variantId |-> "none", quantity |-> 0, regId |-> NoReg,
     ticketId |-> NoTicket, attended |-> "none", reason |-> FALSE,
     event |-> NoDoc, copy |-> NoDoc, ts |-> Undefined, body |-> <<>>,
     outcome |-> "none", shown |-> Undefined, wrote |-> {},
     notice |-> "none", eventIds |-> {}, ops |-> <<>>, session |-> "none"]

NoResp == IdleReq

\* slot r is about to take the step labelled l
At(r, l) == resp = NoResp /\ req[r].pc = l

\* an unused slot takes the next request; slots are interchangeable and are
\* taken in order
Free(r) == At(r, "idle") /\ \A s \in Req : s < r => req[s].pc # "idle"

\* no handler is between two of its steps
Quiet == \A r \in Req : req[r].pc = "idle"

\* res.status(..).json(..): the request as received (kind, ev, who, regId,
\* ticketId), the outcome, the timestamp shown, and what the handler wrote
Respond(rec, out) ==
    [IdleReq EXCEPT !.pc = "done", !.kind = rec.kind, !.ev = rec.ev,
                    !.who = rec.who, !.regId = rec.regId,
                    !.ticketId = rec.ticketId, !.body = rec.body,
                    !.outcome = out, !.shown = rec.shown, !.wrote = rec.wrote,
                    !.notice = rec.notice, !.ops = rec.ops,
                    !.session = rec.session, !.attended = rec.attended,
                    !.reason = rec.reason]

NotOwner_Never(event, o) == FALSE

\* event.organizerId.toString() !== organizer._id.toString(), the ownership
\* check of the organizer's handlers
NotOwner(event, o) == event.organizerId # o

\* the 201 responses of register and place order
Placed == {"Registered", "OrderPlaced", "OrderPending"}

\* slot r moves on with locals rec; a handler that has responded leaves
Step(r, rec) ==
    IF rec.pc = "done"
    THEN /\ req' = [req EXCEPT ![r] = IdleReq]
         /\ resp' = rec
         /\ issued' = IF rec.outcome \in Placed
                      THEN [issued EXCEPT ![rec.ev][rec.who] = @ + 1]
                      ELSE issued
    ELSE /\ req' = [req EXCEPT ![r] = rec]
         /\ resp' = NoResp
         /\ issued' = issued

Finish(r, out) == Step(r, Respond(req[r], out))

\* --------------------------------------------------------- collaborators
sendTicketEmail_Throws(rec, out, delivered) ==
    IF delivered THEN Respond([rec EXCEPT !.notice = "sent"], out)
    ELSE Respond([rec EXCEPT !.notice = "failed"], "ServerError")

\* sendTicketEmail(...) is called without await and catches its own errors:
\* the handler goes on to the response it was about to send
sendTicketEmail(rec, out, delivered) ==
    Respond([rec EXCEPT !.notice = IF delivered THEN "sent" ELSE "failed"], out)

\* postEventToDiscord(url, event): fire-and-forget, its failure never fails
\* the edit
postEventToDiscord(rec, out, delivered) ==
    Respond([rec EXCEPT !.notice = IF delivered THEN "sent" ELSE "failed"], out)

\* org?.discordWebhookUrl of the organizer's profile
discordWebhookUrl(o) == o = "o1"

\* ------------------------------------------------------------------- Init
NormalEvent(limit, elig) ==
    [type |-> "normal", description |-> "d0", customForm |-> "f0",
     organizerId |-> "o1", eligibility |-> elig,
     statusOverride |-> "Published",
     registrationDeadline |-> 1, startDate |-> 1, endDate |-> 1,
     registrationLimit |-> limit, isFormLocked |-> FALSE,
     merchandiseVariants |-> <<>>,
     purchaseLimitPerUser |-> 1, requiresPaymentApproval |-> FALSE]

MerchEvent(stock, plimit, approval) ==
    [type |-> "merchandise", description |-> "d0", customForm |-> "f0",
     organizerId |-> "o1", eligibility |-> "all",
     statusOverride |-> "Published",
     registrationDeadline |-> 1, startDate |-> 1, endDate |-> 1,
     registrationLimit |-> Undefined, isFormLocked |-> FALSE,
     merchandiseVariants |-> [v \in Variants |-> stock],
     purchaseLimitPerUser |-> plimit, requiresPaymentApproval |-> approval]

NormalEvents == {NormalEvent(l, "all") : l \in {Undefined} \cup 0..MaxLimit}
                  \cup {NormalEvent(Undefined, "iiit")}

MerchEvents(approval) ==
    {MerchEvent(s, pl, approval) : s \in 1..MaxStock, pl \in {1, MaxQty}}

\* the server starts with nothing in flight, event e1 drawn from E1 and e2
\* from E2, and the ledger drawn from Ledgers; issued counts the ledger's
\* registrations as placed
\* every organizer has an account and a profile, every event a forum message
\* (the message of forum e has id e, not pinned); organizer o1 has a Pending
\* password reset request (id o1); passwords counts the replacements of a
\* user's password
InitAccounts ==
    [users |-> Organizers, organizers |-> Organizers, messages |-> Events,
     resets |-> {"o1"},
     resetStatus |-> [o \in Organizers |-> "Pending"],
     passwords |-> [o \in Organizers |-> 0],
     isPinned |-> [e \in Events |-> FALSE]]

InitWith(E1, E2, Ledgers) ==
    /\ now = 0
    /\ \E a \in E1, b \in E2 : events = [e \in Events |-> IF e = "e1" THEN a ELSE b]
    /\ asCreated = events
    /\ accounts = InitAccounts
    /\ regs \in Ledgers
    /\ req = [r \in Req |-> IdleReq]
    /\ resp = NoResp
    /\ issued = [e \in Events |-> [p \in Participants |->
                   Cardinality({g \in DOMAIN regs : regs[g].eventId = e
                                                    /\ regs[g].participantId = p})]]

\* the ledger after p1 and p2 each placed an order on the approval-gated e2
PendingLedgers ==
    {<<NewRegistration("e2", "p1", NoTicket, "v1", q, "Pending"),
       NewRegistration("e2", "p2", NoTicket, "v1", q, "Pending")>> :
         q \in 1..MaxQty}

\* --------------------------------------------------------------- the clock
Tick ==
    /\ resp = NoResp
    /\ now < MaxTime
    /\ now' = now + 1
    /\ UNCHANGED <<events, regs, req, resp, issued, asCreated, accounts>>

\* the response leaves the server before the next step is taken
Deliver ==
    /\ resp # NoResp
    /\ resp' = NoResp
    /\ UNCHANGED <<now, events, regs, req, issued, asCreated, accounts>>

OpenForRegistration_AnyPhase(status) == TRUE

\* lines 261 and 322: ["Published", "Ongoing"].includes(status)
OpenForRegistration(status) == status \in {"Published", "Ongoing"}

\* ------------------------------------------------- POST /:id/register
\* lines 253-273: load the event, check kind, phase, deadline, eligibility
StartRegister(r) ==
    /\ Free(r)
    /\ \E e \in Events, p \in Participants :
         LET event == events[e]
             rec   == [IdleReq EXCEPT !.kind = "register", !.ev = e, !.who = p,
                                      !.event = event]
             status == getEffectiveStatus(event)
         IN Step(r,
              IF event = NoDoc THEN Respond(rec, "NotFound")
              ELSE IF event.type # "normal" THEN Respond(rec, "WrongKind")
              ELSE IF ~OpenForRegistration(status)
                   THEN Respond(rec, "InvalidPhase")
              ELSE IF now > event.registrationDeadline
                   THEN Respond(rec, "DeadlinePassed")
              ELSE IF event.eligibility = "iiit" /\ participantType(p) # "iiit"
                   THEN Respond(rec, "Ineligible")
              ELSE IF event.eligibility = "non-iiit" /\ participantType(p) # "non-iiit"
                   THEN Respond(rec, "Ineligible")
              ELSE IF event.registrationLimit # Undefined /\ event.registrationLimit # 0
                   THEN [rec EXCEPT !.pc = "reg_count"]
              ELSE [rec EXCEPT !.pc = "reg_find"])
    /\ UNCHANGED <<now, events, regs, asCreated, accounts>>

\* the capacity check of line 275 on a count and the copy's limit
AtCapacity(count, limit) == count >= limit

\* lines 274-276: countDocuments and the capacity check
RegisterCount(r) ==
    /\ At(r, "reg_count")
    /\ IF AtCapacity(countDocuments(req[r].ev), req[r].event.registrationLimit)
       THEN Finish(r, "CapacityExceeded")
       ELSE Step(r, [req[r] EXCEPT !.pc = "reg_find"])
    /\ UNCHANGED <<now, events, regs, asCreated, accounts>>

\* lines 279-280: findOne existing
RegisterFind(r) ==
    /\ At(r, "reg_find")
    /\ IF RegsOf(req[r].ev, req[r].who) # {}
       THEN Finish(r, "Duplicate")
       ELSE Step(r, [req[r] EXCEPT !.pc = "reg_create"])
    /\ UNCHANGED <<now, events, regs, asCreated, accounts>>

\* lines 282-300: generateTicketId() and Registration.create; a refused
\* insert throws (catch: 500)
RegisterCreate(r) ==
    /\ At(r, "reg_create")
    /\ \E rnd \in 1..RandVals, delivered \in BOOLEAN :
         LET ticketId == generateTicketId(rnd)
             doc == NewRegistration(req[r].ev, req[r].who, ticketId,
                                    "none", 1, "Not Applicable")
         IN IF IndexRefusesInsert(doc)
            THEN /\ Finish(r, "ServerError")
                 /\ UNCHANGED regs
            ELSE /\ regs' = Append(regs, doc)
                 /\ Step(r,
                      LET rec == [req[r] EXCEPT !.regId = Len(regs) + 1,
                                               !.ticketId = ticketId,
                                               !.wrote = @ \cup {"registration"}]
                      IN IF ~req[r].event.isFormLocked
                         THEN [rec EXCEPT !.pc = "reg_lock"]
                         ELSE sendTicketEmail(rec, "Registered", delivered))
    /\ UNCHANGED <<now, events, asCreated, accounts>>

\* lines 293-300: event.isFormLocked = true; event.save(); the ticket
\* email and the 201
RegisterLock(r) ==
    /\ At(r, "reg_lock")
    /\ IF SaveFails(events[req[r].ev])
       THEN /\ Finish(r, "ServerError")
            /\ UNCHANGED events
       ELSE /\ events' = [events EXCEPT ![req[r].ev].isFormLocked = TRUE]
            /\ \E delivered \in BOOLEAN :
                 Step(r, sendTicketEmail([req[r] EXCEPT !.wrote = @ \cup {"event"}],
                                         "Registered", delivered))
    /\ UNCHANGED <<now, regs, asCreated, accounts>>

RegisterSteps(r) ==
    RegisterCount(r) \/ RegisterFind(r) \/ RegisterCreate(r) \/ RegisterLock(r)

\* ---------------------------------------------------- POST /:id/order
\* lines 314-337: load the event, check kind, phase, deadline, eligibility,
\* variantId and the variant
StartOrderWith(r, Q) ==
    /\ Free(r)
    /\ \E e \in Events, p \in Participants, v \in VariantArgs, q \in Q :
         LET event == events[e]
             rec   == [IdleReq EXCEPT !.kind = "order", !.ev = e, !.who = p,
                                      !.variantId = v, !.quantity = q,
                                      !.event = event]
             status == getEffectiveStatus(event)
         IN Step(r,
              IF event = NoDoc THEN Respond(rec, "NotFound")
              ELSE IF event.type # "merchandise" THEN Respond(rec, "WrongKind")
              ELSE IF ~OpenForRegistration(status)
                   THEN Respond(rec, "InvalidPhase")
              ELSE IF now > event.registrationDeadline
                   THEN Respond(rec, "DeadlinePassed")
              ELSE IF event.eligibility = "iiit" /\ participantType(p) # "iiit"
                   THEN Respond(rec, "Ineligible")
              ELSE IF event.eligibility = "non-iiit" /\ participantType(p) # "non-iiit"
                   THEN Respond(rec, "Ineligible")
              ELSE IF v = "none" THEN Respond(rec, "ValidationError")
              ELSE IF v \notin DOMAIN event.merchandiseVariants
                   THEN Respond(rec, "VariantNotFound")
              ELSE [rec EXCEPT !.pc = "ord_past"])
    /\ UNCHANGED <<now, events, regs, asCreated, accounts>>

\* an order of a positive quantity
StartOrder(r) == StartOrderWith(r, 1..MaxQty)

OverPurchaseLimit_Never(totalBought, quantity, limit) == FALSE

\* line 342: totalBought + quantity > event.purchaseLimitPerUser
OverPurchaseLimit(totalBought, quantity, limit) == totalBought + quantity > limit

\* lines 340-343: the participant's past orders and the purchase limit
OrderPast(r) ==
    /\ At(r, "ord_past")
    /\ IF OverPurchaseLimit(SumQty(RegsOf(req[r].ev, req[r].who)),
                            req[r].quantity, req[r].event.purchaseLimitPerUser)
       THEN Finish(r, "PurchaseLimit")
       ELSE Step(r, [req[r] EXCEPT !.pc = "ord_find"])
    /\ UNCHANGED <<now, events, regs, asCreated, accounts>>

\* lines 346-368: duplicate check; then either the approval path, or the
\* stock check and the decrement on the handler's copy of the event
OrderFind(r) ==
    /\ At(r, "ord_find")
    /\ LET v == req[r].variantId
           q == req[r].quantity
       IN IF RegsOf(req[r].ev, req[r].who) # {}
          THEN Finish(r, "Duplicate")
          ELSE IF req[r].event.requiresPaymentApproval
          THEN Step(r, [req[r] EXCEPT !.pc = "ord_pending"])
          ELSE IF req[r].event.merchandiseVariants[v] < q
          THEN Finish(r, "InsufficientStock")
          ELSE Step(r, [req[r] EXCEPT !.pc = "ord_save",
                                      !.event.merchandiseVariants[v] = @ - q])
    /\ UNCHANGED <<now, events, regs, asCreated, accounts>>

\* lines 351-363: Registration.create of the Pending order (no ticket)
OrderCreatePending(r) ==
    /\ At(r, "ord_pending")
    /\ LET doc == NewRegistration(req[r].ev, req[r].who, NoTicket,
                                  req[r].variantId, req[r].quantity, "Pending")
       IN IF IndexRefusesInsert(doc)
          THEN /\ Finish(r, "ServerError")
               /\ UNCHANGED regs
          ELSE /\ regs' = Append(regs, doc)
               /\ Step(r, Respond([req[r] EXCEPT !.regId = Len(regs) + 1,
                                                 !.wrote = @ \cup {"registration"}],
                                  "OrderPending"))
    /\ UNCHANGED <<now, events, asCreated, accounts>>

\* lines 368-369: event.save() writes the copy's stock
OrderSave(r) ==
    /\ At(r, "ord_save")
    /\ LET e == req[r].ev
           v == req[r].variantId
           s == SavedStock(events[e], req[r].event, v)
       IN IF SaveFails(events[e])
          THEN /\ Finish(r, "ServerError")
               /\ UNCHANGED events
          ELSE /\ events' = [events EXCEPT ![e].merchandiseVariants[v] = s]
               /\ Step(r, [req[r] EXCEPT !.pc = "ord_create",
                                         !.wrote = IF s # events[e].merchandiseVariants[v]
                                                   THEN @ \cup {"stock"} ELSE @])
    /\ UNCHANGED <<now, regs, asCreated, accounts>>

\* lines 371-382: generateTicketId() and Registration.create of the
\* confirmed order; a refused insert throws (catch: 500)
OrderCreate(r) ==
    /\ At(r, "ord_create")
    /\ \E rnd \in 1..RandVals, delivered \in BOOLEAN :
         LET ticketId == generateTicketId(rnd)
             doc == NewRegistration(req[r].ev, req[r].who, ticketId,
                                    req[r].variantId, req[r].quantity, "Approved")
         IN IF IndexRefusesInsert(doc)
            THEN /\ Finish(r, "ServerError")
                 /\ UNCHANGED regs
            ELSE /\ regs' = Append(regs, doc)
                 /\ Step(r, sendTicketEmail(
                              [req[r] EXCEPT !.regId = Len(regs) + 1,
                                             !.ticketId = ticketId,
                                             !.wrote = @ \cup {"registration"}],
                              "OrderPlaced", delivered))
    /\ UNCHANGED <<now, events, asCreated, accounts>>

\* the steps of the immediate (no-approval) path
OrderImmediateSteps(r) ==
    OrderPast(r) \/ OrderFind(r) \/ OrderSave(r) \/ OrderCreate(r)

\* ------------------------------------- PATCH /:id/orders/:regId/proof
\* lines 397-410: find the caller's order, require Pending, set the proof
StartProof(r) ==
    /\ Free(r)
    /\ \E e \in Events, p \in Participants, g \in RegIds \cup {NoReg},
          url \in BOOLEAN :
         LET rec == [IdleReq EXCEPT !.kind = "proof", !.ev = e, !.who = p,
                                    !.regId = g]
         IN Step(r,
              IF ~url THEN Respond(rec, "ValidationError")
              ELSE IF g \notin RegIds THEN Respond(rec, "NotFound")
              ELSE IF regs[g].eventId # e \/ regs[g].participantId # p
                   THEN Respond(rec, "NotFound")
              ELSE IF regs[g].paymentStatus # "Pending"
                   THEN Respond(rec, "InvalidTransition")
              ELSE [rec EXCEPT !.pc = "proof_save"])
    /\ UNCHANGED <<now, events, regs, asCreated, accounts>>

\* lines 411-413: reg.save() writes paymentProofUrl
ProofSave(r) ==
    /\ At(r, "proof_save")
    /\ regs' = [regs EXCEPT ![req[r].regId].paymentProofUrl = TRUE]
    /\ Step(r, Respond([req[r] EXCEPT !.wrote = @ \cup {"registration"}],
                       "ProofSubmitted"))
    /\ UNCHANGED <<now, events, asCreated, accounts>>

\* --------------------------------------- PUT /:id/orders/:regId/approve
\* lines 467-473: load the event, ownership check
StartApprove(r) ==
    /\ Free(r)
    /\ \E e \in Events, o \in Organizers, g \in RegIds \cup {NoReg} :
         LET event == events[e]
             rec   == [IdleReq EXCEPT !.kind = "approve", !.ev = e, !.who = o,
                                      !.regId = g, !.event = event]
         IN Step(r,
              IF event = NoDoc THEN Respond(rec, "NotFound")
              ELSE IF NotOwner(event, o) THEN Respond(rec, "Forbidden")
              ELSE [rec EXCEPT !.pc = "app_find"])
    /\ UNCHANGED <<now, events, regs, asCreated, accounts>>

\* lines 475-484: load the order, require Pending, re-validate the stock of
\* the handler's copy of the event and decrement it there
ApproveFind(r) ==
    /\ At(r, "app_find")
    /\ LET g == req[r].regId
       IN IF g \notin RegIds THEN Finish(r, "NotFound")
          ELSE IF regs[g].eventId # req[r].ev THEN Finish(r, "NotFound")
          ELSE IF regs[g].paymentStatus # "Pending"
          THEN Finish(r, "InvalidTransition")
          ELSE IF regs[g].variantId \notin DOMAIN req[r].event.merchandiseVariants
          THEN Finish(r, "InsufficientStock")
          ELSE IF req[r].event.merchandiseVariants[regs[g].variantId] < regs[g].quantity
          THEN Finish(r, "InsufficientStock")
          ELSE Step(r, [req[r] EXCEPT
                 !.pc = "app_evsave",
                 !.variantId = regs[g].variantId,
                 !.quantity = regs[g].quantity,
                 !.event.merchandiseVariants[regs[g].variantId] = @ - regs[g].quantity])
    /\ UNCHANGED <<now, events, regs, asCreated, accounts>>

\* lines 484-485: event.save() writes the copy's stock
ApproveEventSave(r) ==
    /\ At(r, "app_evsave")
    /\ LET e == req[r].ev
           v == req[r].variantId
           s == SavedStock(events[e], req[r].event, v)
       IN IF SaveFails(events[e])
          THEN /\ Finish(r, "ServerError")
               /\ UNCHANGED events
          ELSE /\ events' = [events EXCEPT ![e].merchandiseVariants[v] = s]
               /\ Step(r, [req[r] EXCEPT !.pc = "app_regsave",
                                         !.wrote = IF s # events[e].merchandiseVariants[v]
                                                   THEN @ \cup {"stock"} ELSE @])
    /\ UNCHANGED <<now, regs, asCreated, accounts>>

\* lines 487-495: generateTicketId(); reg.save() writes paymentStatus and
\* ticketId; the unique ticketId index may refuse the update (catch: 500)
ApproveRegSave(r) ==
    /\ At(r, "app_regsave")
    /\ \E rnd \in 1..RandVals, delivered \in BOOLEAN :
         LET g == req[r].regId
             ticketId == generateTicketId(rnd)
         IN IF TicketIndexRefuses(g, ticketId)
            THEN /\ Finish(r, "ServerError")
                 /\ UNCHANGED regs
            ELSE /\ regs' = [regs EXCEPT ![g].paymentStatus = "Approved",
                                         ![g].ticketId = ticketId]
                 /\ Step(r, sendTicketEmail(
                              [req[r] EXCEPT !.ticketId = ticketId,
                                             !.wrote = @ \cup {"registration"}],
                              "Approved", delivered))
    /\ UNCHANGED <<now, events, asCreated, accounts>>

ApproveSteps(r) == ApproveFind(r) \/ ApproveEventSave(r) \/ ApproveRegSave(r)

\* ---------------------------------------- PUT /:id/orders/:regId/reject
\* lines 509-515: load the event, ownership check
StartReject(r) ==
    /\ Free(r)
    /\ \E e \in Events, o \in Organizers, g \in RegIds \cup {NoReg} :
         LET event == events[e]
             rec   == [IdleReq EXCEPT !.kind = "reject", !.ev = e, !.who = o,
                                      !.regId = g, !.event = event]
         IN Step(r,
              IF event = NoDoc THEN Respond(rec, "NotFound")
              ELSE IF NotOwner(event, o) THEN Respond(rec, "Forbidden")
              ELSE [rec EXCEPT !.pc = "rej_find"])
    /\ UNCHANGED <<now, events, regs, asCreated, accounts>>

\* lines 517-522: load the order, require Pending
RejectFind(r) ==
    /\ At(r, "rej_find")
    /\ LET g == req[r].regId
       IN IF g \notin RegIds THEN Finish(r, "NotFound")
          ELSE IF regs[g].eventId # req[r].ev THEN Finish(r, "NotFound")
          ELSE IF regs[g].paymentStatus # "Pending"
          THEN Finish(r, "InvalidTransition")
          ELSE Step(r, [req[r] EXCEPT !.pc = "rej_save"])
    /\ UNCHANGED <<now, events, regs, asCreated, accounts>>

\* lines 522-525: reg.save() writes paymentStatus
RejectSave(r) ==
    /\ At(r, "rej_save")
    /\ regs' = [regs EXCEPT ![req[r].regId].paymentStatus = "Rejected"]
    /\ Step(r, Respond([req[r] EXCEPT !.wrote = @ \cup {"registration"}], "Rejected"))
    /\ UNCHANGED <<now, events, asCreated, accounts>>

RejectSteps(r) == RejectFind(r) \/ RejectSave(r)

\* ---------------------------------------------------- POST /:id/scan
\* tickets a scanner may present: those issued, one nobody holds, none
TicketArgs == {regs[g].ticketId : g \in RegIds} \cup {BogusTicket, NoTicket}

\* lines 646-655: ticketId required; load the event, ownership check
StartScan(r) ==
    /\ Free(r)
    /\ \E e \in Events, o \in Organizers, t \in TicketArgs :
         LET event == events[e]
             rec   == [IdleReq EXCEPT !.kind = "scan", !.ev = e, !.who = o,
                                      !.ticketId = t, !.event = event]
         IN Step(r,
              IF t = NoTicket THEN Respond(rec, "ValidationError")
              ELSE IF event = NoDoc THEN Respond(rec, "NotFound")
              ELSE IF NotOwner(event, o) THEN Respond(rec, "Forbidden")
              ELSE [rec EXCEPT !.pc = "scan_find"])
    /\ UNCHANGED <<now, events, regs, asCreated, accounts>>

TicketOfEvent_Any(reg, e) == TRUE

\* line 660: reg.eventId.toString() !== req.params.id
TicketOfEvent(reg, e) == reg.eventId = e

AlreadyScanned_Never(reg) == FALSE

\* line 663: if (reg.attended)
AlreadyScanned(reg) == reg.attended

\* lines 657-672: find the registration by ticket, check the event, report
\* a duplicate scan with the stored timestamp, else mark the copy attended
\* at new Date()
ScanFind(r) ==
    /\ At(r, "scan_find")
    /\ LET found == RegsWithTicket(req[r].ticketId)
       IN IF found = {} THEN Finish(r, "TicketNotFound")
          ELSE LET g == CHOOSE x \in found : TRUE
               IN IF ~TicketOfEvent(regs[g], req[r].ev)
                  THEN Step(r, Respond([req[r] EXCEPT !.regId = g], "WrongEvent"))
                  ELSE IF AlreadyScanned(regs[g])
                  THEN Step(r, Respond([req[r] EXCEPT
                                 !.regId = g,
                                 !.shown = regs[g].attendanceTimestamp],
                               "DuplicateScan"))
                  ELSE Step(r, [req[r] EXCEPT !.pc = "scan_save", !.regId = g,
                                              !.ts = now])
    /\ UNCHANGED <<now, events, regs, asCreated, accounts>>

\* lines 673-684: reg.save() writes attended and attendanceTimestamp; the
\* two counts that follow only feed the dashboard of the response
ScanSave(r) ==
    /\ At(r, "scan_save")
    /\ regs' = [regs EXCEPT ![req[r].regId].attended = TRUE,
                            ![req[r].regId].attendanceTimestamp = req[r].ts]
    /\ Step(r, Respond([req[r] EXCEPT !.shown = req[r].ts,
                                      !.wrote = @ \cup {"registration"}],
                       "AttendanceMarked"))
    /\ UNCHANGED <<now, events, asCreated, accounts>>

ScanSteps(r) == ScanFind(r) \/ ScanSave(r)

\* ------------------------------- PUT /:id/attendance/:regId/override
\* the attended field of the body: a boolean, or anything else
AttendedArgs == {"true", "false", "other"}

\* lines 744-754: attended must be a boolean and reason non-empty; load the
\* event, ownership check
StartOverride(r) ==
    /\ Free(r)
    /\ \E e \in Events, o \in Organizers, g \in RegIds \cup {NoReg},
          att \in AttendedArgs, reason \in BOOLEAN :
         LET event == events[e]
             rec   == [IdleReq EXCEPT !.kind = "override", !.ev = e, !.who = o,
                                      !.regId = g, !.attended = att,
                                      !.reason = reason, !.event = event]
         IN Step(r,
              IF att = "other" \/ ~reason THEN Respond(rec, "ValidationError")
              ELSE IF event = NoDoc THEN Respond(rec, "NotFound")
              ELSE IF NotOwner(event, o) THEN Respond(rec, "Forbidden")
              ELSE [rec EXCEPT !.pc = "ovr_find"])
    /\ UNCHANGED <<now, events, regs, asCreated, accounts>>

OverrideTimestamp_Always(attended, t) == t

\* line 760: attended ? new Date() : null
OverrideTimestamp(attended, t) == IF attended THEN t ELSE Undefined

\* lines 756-763: find the registration of this event; set the copy's
\* attendance and audit fields, the timestamp at new Date() or null
OverrideFind(r) ==
    /\ At(r, "ovr_find")
    /\ LET g == req[r].regId
       IN IF g \notin RegIds THEN Finish(r, "NotFound")
          ELSE IF regs[g].eventId # req[r].ev THEN Finish(r, "NotFound")
          ELSE Step(r, [req[r] EXCEPT !.pc = "ovr_save",
                                      !.ts = OverrideTimestamp(
                                                 req[r].attended = "true", now)])
    /\ UNCHANGED <<now, events, regs, asCreated, accounts>>

\* lines 764-766: reg.save() writes the five paths
OverrideSave(r) ==
    /\ At(r, "ovr_save")
    /\ regs' = [regs EXCEPT ![req[r].regId].attended = (req[r].attended = "true"),
                            ![req[r].regId].attendanceTimestamp = req[r].ts,
                            ![req[r].regId].manualOverride = TRUE,
                            ![req[r].regId].overrideReason = req[r].reason,
                            ![req[r].regId].overriddenBy = req[r].who]
    /\ Step(r, Respond([req[r] EXCEPT !.shown = req[r].ts,
                                      !.wrote = @ \cup {"registration"}],
                       "Overridden"))
    /\ UNCHANGED <<now, events, asCreated, accounts>>

OverrideSteps(r) == OverrideFind(r) \/ OverrideSave(r)

\* ------------------------------------------------------------ PUT /:id
\* statusOverride enum of the Event schema
Statuses == {"Draft", "Published", "Ongoing", "Completed", "Closed"}

\* the fields a request body may carry, in the order a body lists them;
\* startDate stands for the fields that are frozen once published
EditKeyOrder == <<"description", "registrationDeadline", "registrationLimit",
                  "statusOverride", "startDate">>

EditKeys == {EditKeyOrder[i] : i \in DOMAIN EditKeyOrder}

\* the values drawn for each field; "Bogus" is a status outside the enum
EditValues(k) ==
    CASE k = "description"          -> {"d1"}
      [] k = "registrationDeadline" -> 0..MaxTime
      [] k = "registrationLimit"    -> 0..(MaxLimit + 1)
      [] k = "statusOverride"       -> Statuses \cup {"Bogus"}
      [] k = "startDate"            -> {0, MaxTime}

\* req.body: no field, one field, or two fields
Bodies ==
    {<<>>}
    \cup UNION {{<<<<k, v>>>> : v \in EditValues(k)} : k \in EditKeys}
    \cup UNION {{<<<<EditKeyOrder[x[1]], v1>>, <<EditKeyOrder[x[2]], v2>>>> :
                    v1 \in EditValues(EditKeyOrder[x[1]]),
                    v2 \in EditValues(EditKeyOrder[x[2]])} :
                 x \in {y \in (DOMAIN EditKeyOrder) \X (DOMAIN EditKeyOrder) : y[1] < y[2]}}

BodyKeys(body) == {body[i][1] : i \in DOMAIN body}

\* updates[key]
BodyValue(body, k) == body[CHOOSE i \in DOMAIN body : body[i][1] = k][2]

\* line 75: Object.assign(event, updates)
RECURSIVE Assign(_, _)
Assign(event, body) ==
    IF body = <<>> THEN event
    ELSE Assign([event EXCEPT ![body[1][1]] = body[1][2]], Tail(body))

\* line 77
allowed == {"description", "registrationDeadline", "registrationLimit",
            "statusOverride"}

PublishedRefusal_None(event, k, v) == "none"

\* lines 79-84: why the Published branch refuses a field ("none": it does not)
PublishedRefusal(event, k, v) ==
    IF k \notin allowed THEN "NotEditable"
    ELSE IF k = "registrationDeadline" /\ v < event.registrationDeadline
         THEN "NarrowDeadline"
    ELSE IF k = "registrationLimit" /\ event.registrationLimit # Undefined
              /\ v < event.registrationLimit
         THEN "NarrowLimit"
    ELSE "none"

\* lines 78-86: the loop over the keys; the first refusal returns
RECURSIVE EditPublished(_, _)
EditPublished(event, body) ==
    IF body = <<>> THEN [refusal |-> "none", event |-> event]
    ELSE LET k == body[1][1]
             v == body[1][2]
             why == PublishedRefusal(event, k, v)
         IN IF why # "none" THEN [refusal |-> why, event |-> event]
            ELSE EditPublished([event EXCEPT ![k] = v], Tail(body))

StatusOnlyBody_Includes(body) == "statusOverride" \in BodyKeys(body)

\* lines 88-89: keys.length === 1 && keys[0] === "statusOverride"
StatusOnlyBody(body) == Len(body) = 1 /\ body[1][1] = "statusOverride"

\* lines 63-92: load the event, ownership check (before req.body is looked
\* at), effective status, and the branch of that status applied to the
\* handler's copy
StartEditWith(r, B) ==
    /\ Free(r)
    /\ \E e \in Events, o \in Organizers, body \in B :
         LET event == events[e]
             caller == [IdleReq EXCEPT !.kind = "edit", !.ev = e, !.who = o]
             rec   == [caller EXCEPT !.body = body, !.event = event, !.ts = now]
             currentStatus == getEffectiveStatus(event)
             published == EditPublished(event, body)
         IN Step(r,
              IF event = NoDoc THEN Respond(caller, "NotFound")
              ELSE IF NotOwner(event, o) THEN Respond(caller, "Forbidden")
              ELSE IF currentStatus = "Draft"
                   THEN [rec EXCEPT !.pc = "edit_save",
                                    !.copy = Assign(event, body)]
              ELSE IF currentStatus = "Published"
                   THEN IF published.refusal # "none"
                        THEN Respond(rec, published.refusal)
                        ELSE [rec EXCEPT !.pc = "edit_save",
                                         !.copy = published.event]
              ELSE IF currentStatus \in {"Ongoing", "Completed"}
                   THEN IF ~StatusOnlyBody(body)
                        THEN Respond(rec, "StatusOnly")
                        ELSE [rec EXCEPT !.pc = "edit_save",
                                  !.copy = [event EXCEPT !.statusOverride =
                                              BodyValue(body, "statusOverride")]]
              ELSE [rec EXCEPT !.pc = "edit_save", !.copy = event])
    /\ UNCHANGED <<now, events, regs, asCreated, accounts>>

StartEdit(r) == StartEditWith(r, Bodies)

\* lines 71-72: the handler saw Draft and the body asks for Published
wasPublishing(rec) ==
    /\ getEffectiveStatusAt(rec.event, rec.ts) = "Draft"
    /\ "statusOverride" \in BodyKeys(rec.body)
    /\ BodyValue(rec.body, "statusOverride") = "Published"

ValidationFails_Never(event) == FALSE

\* the schema's validators run by save(): statusOverride must be in the enum
ValidationFails(event) == event.statusOverride \notin Statuses

\* the paths save() sends: those the handler changed on its copy
SavedEvent(stored, loaded, copy) ==
    [k \in DOMAIN stored |-> IF copy[k] # loaded[k] THEN copy[k] ELSE stored[k]]

\* lines 94-107: event.save(); a validation error throws (catch: 500);
\* then the webhook of an edit that was publishing, and the response
EditSave(r) ==
    /\ At(r, "edit_save")
    /\ LET e == req[r].ev
           saved == [req[r] EXCEPT !.wrote =
                       IF events'[e] # events[e] THEN {"event"} ELSE {}]
       IN IF ValidationFails(req[r].copy) \/ SaveFails(events[e])
          THEN /\ Finish(r, "ServerError")
               /\ events' = events
          ELSE /\ events' = [events EXCEPT ![e] =
                               SavedEvent(@, req[r].event, req[r].copy)]
               /\ IF wasPublishing(req[r]) /\ discordWebhookUrl(req[r].event.organizerId)
                  THEN \E delivered \in BOOLEAN :
                         Step(r, postEventToDiscord(saved, "Saved", delivered))
                  ELSE Step(r, Respond(saved, "Saved"))
    /\ UNCHANGED <<now, regs, asCreated, accounts>>

\* ------------------------------------------------------------ DELETE /:id
Deletable_Any(status) == TRUE

\* line 125: getEffectiveStatus(event) !== "Draft" is refused
Deletable(status) == status = "Draft"

\* lines 118-126: load the event, ownership check, Draft check
StartDelete(r) ==
    /\ Free(r)
    /\ \E e \in Events, o \in Organizers :
         LET event == events[e]
             rec   == [IdleReq EXCEPT !.kind = "delete", !.ev = e, !.who = o,
                                      !.event = event, !.ts = now]
         IN Step(r,
              IF event = NoDoc THEN Respond(rec, "NotFound")
              ELSE IF NotOwner(event, o) THEN Respond(rec, "Forbidden")
              ELSE IF ~Deletable(getEffectiveStatus(event))
                   THEN Respond(rec, "NotDraft")
              ELSE [rec EXCEPT !.pc = "del_event"])
    /\ UNCHANGED <<now, events, regs, asCreated, accounts>>

\* line 128: Event.findByIdAndDelete(req.params.id)
DeleteEvent(r) ==
    /\ At(r, "del_event")
    /\ events' = [events EXCEPT ![req[r].ev] = NoDoc]
    /\ Step(r, [req[r] EXCEPT !.pc = "del_regs",
                              !.wrote = IF events[req[r].ev] # NoDoc
                                        THEN @ \cup {"event"} ELSE @])
    /\ UNCHANGED <<now, regs, asCreated, accounts>>

\* Registration.deleteMany({ eventId: { $in: ids } }); no handler of the
\* specifications that delete holds a registration id across the delete
deleteMany(ids) == SelectSeq(regs, LAMBDA reg : reg.eventId \notin ids)

\* lines 129-131: the cascade and the confirmation
DeleteRegistrations(r) ==
    /\ At(r, "del_regs")
    /\ regs' = deleteMany({req[r].ev})
    /\ Step(r, Respond([req[r] EXCEPT !.wrote = IF regs' # regs
                                                THEN @ \cup {"registration"} ELSE @],
                       "Deleted"))
    /\ UNCHANGED <<now, events, asCreated, accounts>>

DeleteSteps(r) == DeleteEvent(r) \/ DeleteRegistrations(r)

\* ------------------------------------------- DELETE /organizers/:userId
\* the writes of the handler, in its order
AdminOps == <<"messages", "registrations", "events", "resets", "organizer", "user">>

InSession_RegistrationsOutside(op) == op # "registrations"

\* each of the six deletes is passed { session }
InSession(op) == TRUE

\* the stored collections after the deletes S of organizer o, whose events
\* were read as ids
ApplyDeletes(S, o, ids) ==
    /\ events' = [e \in Events |->
                    IF "events" \in S /\ events[e] # NoDoc /\ events[e].organizerId = o
                    THEN NoDoc ELSE events[e]]
    /\ regs' = IF "registrations" \in S THEN deleteMany(ids) ELSE regs
    /\ accounts' =
         [accounts EXCEPT
            !.users = IF "user" \in S THEN @ \ {o} ELSE @,
            !.organizers = IF "organizer" \in S THEN @ \ {o} ELSE @,
            !.messages = IF "messages" \in S THEN @ \ ids ELSE @,
            !.resets = IF "resets" \in S THEN @ \ {o} ELSE @]

\* the deletes of the handler that wait in its transaction
Staged(ops) == {ops[i] : i \in {j \in DOMAIN ops : InSession(ops[j])}}

\* lines 92-104: start the session and its transaction (session:
\* inTransaction, until commitTransaction or abortTransaction with
\* endSession), find the account, the profile and the organizer's events
StartAdminDelete(r) ==
    /\ Free(r)
    /\ \E o \in Organizers :
         LET rec == [IdleReq EXCEPT !.kind = "adminDelete", !.who = o,
                                    !.session = "inTransaction"]
         IN Step(r,
              IF o \notin accounts.users THEN Respond(rec, "NotFound")
              ELSE IF o \notin accounts.organizers THEN Respond(rec, "NotFound")
              ELSE [rec EXCEPT !.pc = "adm_delete",
                               !.eventIds = {e \in Events : /\ events[e] # NoDoc
                                                            /\ events[e].organizerId = o}])
    /\ UNCHANGED <<now, events, regs, asCreated, accounts>>

\* lines 107-122: the next delete of the handler; it joins the transaction,
\* or throws (catch: abortTransaction, 500)
AdminDelete(r) ==
    /\ At(r, "adm_delete")
    /\ Len(req[r].ops) < Len(AdminOps)
    /\ LET op == AdminOps[Len(req[r].ops) + 1]
       IN \E thrown \in BOOLEAN :
            IF thrown
            THEN /\ Step(r, Respond([req[r] EXCEPT !.session = "aborted"],
                                    "ServerError"))
                 /\ UNCHANGED <<events, regs, accounts>>
            ELSE /\ Step(r, [req[r] EXCEPT !.ops = Append(@, op)])
                 /\ IF InSession(op)
                    THEN UNCHANGED <<events, regs, accounts>>
                    ELSE ApplyDeletes({op}, req[r].who, req[r].eventIds)
    /\ UNCHANGED <<now, asCreated>>

\* lines 124-130: commitTransaction applies the transaction's deletes
\* together, or throws (catch: abortTransaction, 500)
AdminCommit(r) ==
    /\ At(r, "adm_delete")
    /\ Len(req[r].ops) = Len(AdminOps)
    /\ \E thrown \in BOOLEAN :
         IF thrown
         THEN /\ Step(r, Respond([req[r] EXCEPT !.session = "aborted"],
                                 "ServerError"))
              /\ UNCHANGED <<events, regs, accounts>>
         ELSE /\ ApplyDeletes(Staged(req[r].ops), req[r].who, req[r].eventIds)
              /\ Step(r, Respond([req[r] EXCEPT !.session = "committed"],
                                 "Deleted"))
    /\ UNCHANGED <<now, asCreated>>

\* an event as POST / creates it: statusOverride Draft
DraftEvent(limit) == [NormalEvent(limit, "all") EXCEPT !.statusOverride = "Draft"]

\* a merchandise event that has been closed
ClosedEvent == [MerchEvent(1, 1, FALSE) EXCEPT !.statusOverride = "Closed"]

\* ------------------------------------------------------- specifications
\* concurrent registrations for a normal event
NextRegister == Tick \/ Deliver \/ \E r \in Req : StartRegister(r) \/ RegisterSteps(r)

InitRegister == InitWith(NormalEvents, {MerchEvent(1, 1, FALSE)}, {<<>>})

SpecRegister == InitRegister /\ [][NextRegister]_vars

\* concurrent immediate (no-approval) merchandise orders
NextOrder == Tick \/ Deliver \/ \E r \in Req : StartOrder(r) \/ OrderImmediateSteps(r)

InitOrder ==
    InitWith({NormalEvent(Undefined, "all")},
             {MerchEvent(s, MaxQty, FALSE) : s \in 1..MaxStock}, {<<>>})

SpecOrder == InitOrder /\ [][NextOrder]_vars

\* the organizer's decisions on two Pending orders, all concurrent
NextApproval ==
    \/ Tick \/ Deliver
    \/ \E r \in Req : StartApprove(r) \/ ApproveSteps(r)
    \/ \E r \in Req : StartReject(r) \/ RejectSteps(r)

InitApproval ==
    InitWith({NormalEvent(Undefined, "all")},
             {MerchEvent(s, MaxQty, TRUE) : s \in 1..MaxStock}, PendingLedgers)

SpecApproval == InitApproval /\ [][NextApproval]_vars

\* both creation paths together: registrations of p1 for the IIIT-only
\* normal event e1 and orders (immediate or approval-gated) of p2 for the
\* non-IIIT merchandise event e2
NextLedger ==
    \/ Tick \/ Deliver
    \/ \E r \in Req : StartRegister(r) \/ RegisterSteps(r)
    \/ \E r \in Req : StartOrder(r) \/ OrderImmediateSteps(r) \/ OrderCreatePending(r)

InitLedger ==
    InitWith({NormalEvent(l, "iiit") : l \in {Undefined, MaxLimit}},
             {[MerchEvent(MaxStock, MaxQty, a) EXCEPT !.eligibility = "non-iiit"] :
                a \in BOOLEAN}, {<<>>})

SpecLedger == InitLedger /\ [][NextLedger]_vars

\* payment proof against pending orders: participants upload proof while
\* the organizer rejects
NextProof ==
    \/ Tick \/ Deliver
    \/ \E r \in Req : StartProof(r) \/ ProofSave(r)
    \/ \E r \in Req : StartReject(r) \/ RejectSteps(r)

SpecProof == InitApproval /\ [][NextProof]_vars

\* registrations and orders against events in every phase, with the
\* deadline before or on the day of the event
InitPhase ==
    InitWith({[NormalEvent(MaxLimit, "iiit") EXCEPT
                  !.statusOverride = s, !.registrationDeadline = d] :
                s \in Statuses, d \in {0, 1}},
             {[MerchEvent(1, 1, FALSE) EXCEPT
                  !.eligibility = "non-iiit",
                  !.statusOverride = s, !.registrationDeadline = d] :
                s \in Statuses, d \in {0, 1}},
             {<<>>})

NextPhase ==
    \/ Tick \/ Deliver
    \/ \E r \in Req : StartRegister(r) \/ RegisterSteps(r)
    \/ \E r \in Req : StartOrder(r) \/ OrderImmediateSteps(r)

SpecPhase == InitPhase /\ [][NextPhase]_vars

\* edits, one request at a time: e1 starts as the Draft it was created as
\* and is taken through its phases by the edits; e2 is Closed
StartEditAlone(r) == Quiet /\ StartEdit(r)

NextEdit ==
    \/ Tick \/ Deliver
    \/ \E r \in Req : StartEditAlone(r)
    \/ \E r \in Req : EditSave(r)

InitEdit == InitWith({DraftEvent(l) : l \in {Undefined, MaxLimit}}, {ClosedEvent}, {<<>>})

SpecEdit == InitEdit /\ [][NextEdit]_vars

\* attendance, one request at a time: p1 registers for the IIIT-only normal
\* event e1, the organizer scans and overrides
StartAttendance(r) ==
    Quiet /\ (StartRegister(r) \/ StartScan(r) \/ StartOverride(r))

NextScan ==
    \/ Tick \/ Deliver
    \/ \E r \in Req : StartAttendance(r)
    \/ \E r \in Req : RegisterSteps(r) \/ ScanSteps(r) \/ OverrideSteps(r)

InitScan ==
    InitWith({NormalEvent(MaxLimit, "iiit")}, {MerchEvent(1, 1, FALSE)}, {<<>>})

SpecScan == InitScan /\ [][NextScan]_vars

\* attendance with concurrent requests
NextScanRace ==
    \/ Tick \/ Deliver
    \/ \E r \in Req : StartRegister(r) \/ RegisterSteps(r)
    \/ \E r \in Req : StartScan(r) \/ ScanSteps(r)
    \/ \E r \in Req : StartOverride(r) \/ OverrideSteps(r)

SpecScanRace == InitScan /\ [][NextScanRace]_vars

\* merchandise orders of any quantity the body may carry (line 333 takes
\* quantity from req.body as it is), concurrent, before the deadline: an
\* immediate event with a limit of one, an approval-gated one with MaxQty
QuantityArgs == -1..MaxQty

\* no further order is taken once a stock has grown past MaxStock
StockBounded ==
    \A e \in Events : \A v \in Variants :
        events[e].type = "merchandise" => events[e].merchandiseVariants[v] <= MaxStock

NextQuantity ==
    \/ Deliver
    \/ \E r \in Req : StockBounded /\ StartOrderWith(r, QuantityArgs)
    \/ \E r \in Req : OrderImmediateSteps(r) \/ OrderCreatePending(r)

InitQuantity ==
    InitWith({NormalEvent(Undefined, "all")},
             {MerchEvent(MaxStock, 1, FALSE), MerchEvent(1, MaxQty, TRUE)}, {<<>>})

SpecQuantity == InitQuantity /\ [][NextQuantity]_vars

\* the life of a normal event under concurrent requests: participants
\* register, the organizer moves it between Draft and Published and
\* deletes it
StatusBodies == {<<<<"statusOverride", "Draft">>>>, <<<<"statusOverride", "Published">>>>}

NextDelete ==
    \/ Tick \/ Deliver
    \/ \E r \in Req : StartRegister(r) \/ RegisterSteps(r)
    \/ \E r \in Req : StartEditWith(r, StatusBodies) \/ EditSave(r)
    \/ \E r \in Req : StartDelete(r) \/ DeleteSteps(r)

InitDelete ==
    InitWith({[NormalEvent(MaxLimit, "all") EXCEPT !.statusOverride = s] :
                 s \in {"Draft", "Published"}},
             {ClosedEvent}, {<<>>})

SpecDelete == InitDelete /\ [][NextDelete]_vars

\* the admin deletes organizer accounts, requests concurrent, any of the
\* handler's database calls may fail: o1 owns e1, o2 owns e2, each event
\* has a registration and forum messages
AdminLedger ==
    <<NewRegistration("e1", "p1", generateTicketId(1), "none", 1, "Not Applicable"),
      NewRegistration("e2", "p2", NoTicket, "v1", 1, "Pending")>>

NextAdmin ==
    \/ Deliver
    \/ \E r \in Req : StartAdminDelete(r) \/ AdminDelete(r) \/ AdminCommit(r)

InitAdmin ==
    InitWith({NormalEvent(MaxLimit, "all")},
             {[MerchEvent(1, 1, TRUE) EXCEPT !.organizerId = "o2"]}, {AdminLedger})

SpecAdmin == InitAdmin /\ [][NextAdmin]_vars

\* a normal event's form: participants register, the organizer unpublishes
\* the event and edits its form fields, one request at a time
FormBodies ==
    {<<<<"statusOverride", "Draft">>>>, <<<<"statusOverride", "Published">>>>,
     <<<<"isFormLocked", FALSE>>>>, <<<<"customForm", "f1">>>>,
     <<<<"registrationLimit", MaxLimit>>>>}

StartFormRequest(r) ==
    Quiet /\ (StartRegister(r) \/ StartEditWith(r, FormBodies))

NextFormLock ==
    \/ Tick \/ Deliver
    \/ \E r \in Req : StartFormRequest(r)
    \/ \E r \in Req : RegisterSteps(r) \/ EditSave(r)

InitFormLock ==
    InitWith({NormalEvent(l, "all") : l \in {Undefined, MaxLimit}}, {ClosedEvent},
             {<<>>})

SpecFormLock == InitFormLock /\ [][NextFormLock]_vars

\* the four operations that notify, one request at a time: the organizer
\* publishes the Draft e1 and participants register for it; on e2 either
\* immediate orders are placed or Pending orders are approved
StartNotifying(r) ==
    Quiet /\ (StartRegister(r) \/ StartOrder(r) \/ StartApprove(r)
                \/ StartEditWith(r, StatusBodies))

NextNotify ==
    \/ Deliver
    \/ \E r \in Req : StartNotifying(r)
    \/ \E r \in Req : RegisterSteps(r) \/ OrderImmediateSteps(r)
    \/ \E r \in Req : ApproveSteps(r) \/ EditSave(r)

InitNotify ==
    \/ InitWith({DraftEvent(MaxLimit)}, {MerchEvent(1, 1, FALSE)}, {<<>>})
    \/ InitWith({DraftEvent(MaxLimit)}, {MerchEvent(MaxStock, MaxQty, TRUE)},
                PendingLedgers)

SpecNotify == InitNotify /\ [][NextNotify]_vars

\* concurrent edits of one event by its organizer: e1 is a Draft or a
\* Published event whose deadline and limit can still be widened
RaceBodies ==
    {<<<<"statusOverride", "Published">>>>,
     <<<<"registrationDeadline", 1>>>>, <<<<"registrationDeadline", MaxTime>>>>,
     <<<<"registrationLimit", 1>>>>, <<<<"registrationLimit", MaxLimit + 1>>>>}

NextEditRace ==
    \/ Deliver
    \/ \E r \in Req : StartEditWith(r, RaceBodies) \/ EditSave(r)

InitEditRace ==
    InitWith({[NormalEvent(0, "all") EXCEPT !.registrationDeadline = 0,
                                            !.statusOverride = s] :
                 s \in {"Draft", "Published"}},
             {ClosedEvent}, {<<>>})

SpecEditRace == InitEditRace /\ [][NextEditRace]_vars

\* the organizers' operations, one request at a time: o1 owns both events,
\* o2 none; e2 is approval-gated and has the Pending orders of p1 and p2
StartOrganizerRequest(r) ==
    /\ Quiet
    /\ \/ StartEditWith(r, StatusBodies \cup {<<<<"statusOverride", "Closed">>>>})
       \/ StartDelete(r)
       \/ StartApprove(r) \/ StartReject(r)
       \/ StartScan(r) \/ StartOverride(r)

NextOrganizer ==
    \/ Deliver
    \/ \E r \in Req : StartOrganizerRequest(r)
    \/ \E r \in Req : EditSave(r) \/ DeleteSteps(r)
    \/ \E r \in Req : ApproveSteps(r) \/ RejectSteps(r)
    \/ \E r \in Req : ScanSteps(r) \/ OverrideSteps(r)

SpecOrganizer ==
    /\ InitWith({NormalEvent(Undefined, "all")}, {MerchEvent(MaxStock, MaxQty, TRUE)},
                PendingLedgers)
    /\ [][NextOrganizer]_vars


\* ------------------------------------------------------------------ POST /
\* request bodies of a create: the event's configuration is that of a
\* normal event, with the fields the body sets laid over it
CreateBodies ==
    {<<>>, <<<<"description", "d1">>>>,
     <<<<"statusOverride", "Published">>>>, <<<<"organizerId", "o2">>>>,
     <<<<"statusOverride", "Published">>, <<"organizerId", "o2">>>>,
     <<<<"organizerId", "o1">>, <<"statusOverride", "Closed">>>>}

CreateDoc_BodyLast(body, o) ==
    Assign([NormalEvent(Undefined, "all") EXCEPT !.organizerId = o,
                                                 !.statusOverride = "Draft"], body)

\* lines 41-45: { ...req.body, organizerId: organizer._id, statusOverride: "Draft" }
CreateDoc(body, o) ==
    [Assign(NormalEvent(Undefined, "all"), body) EXCEPT !.organizerId = o,
                                                        !.statusOverride = "Draft"]

\* lines 38-50: the caller's organizer profile, Event.create under a new
\* _id (validation errors throw, catch: 500), 201
CreateEvent(r) ==
    /\ Free(r)
    /\ \E o \in Organizers, body \in CreateBodies, e \in Events :
         LET rec == [IdleReq EXCEPT !.kind = "create", !.who = o, !.body = body,
                                    !.ev = e, !.ts = now]
             doc == CreateDoc(body, o)
         IN /\ events[e] = NoDoc
            /\ IF o \notin accounts.organizers
               THEN /\ Step(r, Respond(rec, "NotFound"))
                    /\ UNCHANGED <<events, asCreated>>
               ELSE IF ValidationFails(doc)
               THEN /\ Step(r, Respond(rec, "ServerError"))
                    /\ UNCHANGED <<events, asCreated>>
               ELSE /\ events' = [events EXCEPT ![e] = doc]
                    /\ asCreated' = [asCreated EXCEPT ![e] = doc]
                    /\ Step(r, Respond([rec EXCEPT !.wrote = {"event"}], "Created"))
    /\ UNCHANGED <<now, regs, accounts>>

\* organizers create events, then publish, unpublish and delete them, one
\* request at a time, starting from an empty Event collection
StartCreateRequest(r) ==
    Quiet /\ (CreateEvent(r) \/ StartEditWith(r, StatusBodies) \/ StartDelete(r))

NextCreate ==
    \/ Deliver
    \/ \E r \in Req : StartCreateRequest(r)
    \/ \E r \in Req : EditSave(r) \/ DeleteSteps(r)

SpecCreate == InitWith({NoDoc}, {NoDoc}, {<<>>}) /\ [][NextCreate]_vars


\* ------------------------- PUT /password-reset-requests/:id/approve, reject
\* lines 155-159 and 187-191 (kind "resetApprove", "resetReject"): load the
\* request, require Pending
StartReset(r, kind) ==
    /\ Free(r)
    /\ \E id \in Organizers :
         LET rec == [IdleReq EXCEPT !.kind = kind, !.who = id]
         IN Step(r,
              IF id \notin accounts.resets THEN Respond(rec, "NotFound")
              ELSE IF accounts.resetStatus[id] # "Pending"
                   THEN Respond(rec, "InvalidTransition")
              ELSE [rec EXCEPT !.pc = IF kind = "resetApprove"
                                      THEN "reset_user" ELSE "reset_reject"])
    /\ UNCHANGED <<now, events, regs, asCreated, accounts>>

\* lines 161-167: a new random password; load the user of the request,
\* user.save() replaces the password
ResetUserSave(r) ==
    /\ At(r, "reset_user")
    /\ IF req[r].who \notin accounts.users
       THEN /\ Finish(r, "NotFound")
            /\ UNCHANGED accounts
       ELSE /\ accounts' = [accounts EXCEPT !.passwords[req[r].who] = @ + 1]
            /\ Step(r, [req[r] EXCEPT !.pc = "reset_save",
                                      !.wrote = @ \cup {"password"}])
    /\ UNCHANGED <<now, events, regs, asCreated>>

\* lines 170-172 and 193-195: request.save() writes the status the handler
\* set on its copy (a request deleted meanwhile: save throws, catch: 500)
ResetRequestSave(r) ==
    /\ \/ At(r, "reset_save")
       \/ At(r, "reset_reject")
    /\ LET status == IF req[r].pc = "reset_save" THEN "Approved" ELSE "Rejected"
       IN IF req[r].who \notin accounts.resets
          THEN /\ Finish(r, "ServerError")
               /\ UNCHANGED accounts
          ELSE /\ accounts' = [accounts EXCEPT !.resetStatus[req[r].who] = status]
               /\ Step(r, Respond([req[r] EXCEPT !.wrote = @ \cup {"request"}], status))
    /\ UNCHANGED <<now, events, regs, asCreated>>

\* the admin's decisions on password reset requests, all concurrent
NextReset ==
    \/ Tick \/ Deliver
    \/ \E r \in Req : StartReset(r, "resetApprove") \/ StartReset(r, "resetReject")
    \/ \E r \in Req : ResetUserSave(r) \/ ResetRequestSave(r)

SpecReset ==
    /\ InitWith({NormalEvent(Undefined, "all")}, {ClosedEvent}, {<<>>})
    /\ [][NextReset]_vars


\* ------------------------------------------ PUT /:id/forum/:messageId/pin
\* lines 135-141: role check, the caller's profile, the event :id and its
\* ownership; the message id is kept in the handler's copy
StartPin(r) ==
    /\ Free(r)
    /\ \E u \in Organizers \cup Participants, e \in Events,
          m \in Events \cup {"none"} :
         LET event == events[e]
             rec   == [IdleReq EXCEPT !.kind = "pin", !.ev = e, !.who = u,
                                      !.event = event, !.copy = [id |-> m]]
         IN Step(r,
              IF u \notin Organizers THEN Respond(rec, "Forbidden")
              ELSE IF event = NoDoc \/ u \notin accounts.organizers
                      \/ NotOwner(event, u)
                   THEN Respond(rec, "Forbidden")
              ELSE [rec EXCEPT !.pc = "pin_find"])
    /\ UNCHANGED <<now, events, regs, asCreated, accounts>>

\* lines 143-146: Message.findById(req.params.messageId); toggle isPinned
\* on the copy
PinFind(r) ==
    /\ At(r, "pin_find")
    /\ LET m == req[r].copy.id
       IN IF m \notin accounts.messages THEN Finish(r, "NotFound")
          ELSE Step(r, [req[r] EXCEPT
                 !.pc = "pin_save",
                 !.copy = [id |-> m, isPinned |-> ~accounts.isPinned[m]]])
    /\ UNCHANGED <<now, events, regs, asCreated, accounts>>

\* lines 147-155: msg.save() writes isPinned (a message deleted meanwhile:
\* save throws, catch: 500); the response
PinSave(r) ==
    /\ At(r, "pin_save")
    /\ LET m == req[r].copy.id
       IN IF m \notin accounts.messages
          THEN /\ Finish(r, "ServerError")
               /\ UNCHANGED accounts
          ELSE /\ accounts' = [accounts EXCEPT !.isPinned[m] = req[r].copy.isPinned]
               /\ Step(r, Respond([req[r] EXCEPT !.wrote = @ \cup {"message"}],
                                  "Pinned"))
    /\ UNCHANGED <<now, events, regs, asCreated>>

\* pin requests on the forums of two events of different organizers, all
\* concurrent
NextForum ==
    \/ Tick \/ Deliver
    \/ \E r \in Req : StartPin(r) \/ PinFind(r) \/ PinSave(r)

SpecForum == InitAdmin /\ [][NextForum]_vars

\* ----------------------------------------------------------------- claims
AllPairs == Events \X Participants

\* the confirmed (ticketed) orders of variant v of event e
ApprovedOrders(e, v) ==
    {g \in RegIds : regs[g].eventId = e /\ regs[g].variantId = v
                      /\ regs[g].paymentStatus = "Approved"}

\* a response was sent by the step just taken
Responded == resp = NoResp /\ resp' # NoResp

\* C1: at most one Registration per (event, participant), whichever path
\* created it; of the requests for one pair at most one is answered with
\* success, and once every request has been answered exactly one was for
\* each pair that holds a registration
C1_OnePerPair ==
    /\ \A x \in AllPairs : Cardinality(RegsOf(x[1], x[2])) <= 1
    /\ \A x \in AllPairs : issued[x[1]][x[2]] <= Cardinality(RegsOf(x[1], x[2]))
    /\ (Quiet /\ resp = NoResp) =>
          \A x \in AllPairs : issued[x[1]][x[2]] = Cardinality(RegsOf(x[1], x[2]))

\* a request lost the insert race for a pair whose winner was answered
C1_Witness ==
    /\ resp.kind \in {"register", "order"}
    /\ resp.outcome = "ServerError"
    /\ Cardinality(RegsOf(resp.ev, resp.who)) = 1
    /\ issued[resp.ev][resp.who] = 1

\* C2: stock is never negative and the quantity sold by immediate orders
\* never exceeds the stock the variant was created with
C2_NoOversell ==
    \A e \in Events : \A v \in DOMAIN events[e].merchandiseVariants :
        /\ events[e].merchandiseVariants[v] >= 0
        /\ SumQty(ApprovedOrders(e, v)) <= asCreated[e].merchandiseVariants[v]

\* C3: the registrations of a normal event with a limit L >= 1 never
\* outnumber L
C3_WithinLimit ==
    \A e \in Events :
        events[e].registrationLimit >= 1
            => countDocuments(e) <= events[e].registrationLimit

\* C4: of two Pending orders approved concurrently against stock 1 only one
\* becomes Approved: the quantity of the Approved orders of a variant never
\* exceeds the stock that was available, and a refused approval leaves its
\* order Pending
C4_ApprovedWithinStock ==
    /\ \A e \in Events : \A v \in DOMAIN events[e].merchandiseVariants :
          SumQty(ApprovedOrders(e, v))
              <= asCreated[e].merchandiseVariants[v] - events[e].merchandiseVariants[v]
    /\ (resp.kind = "approve" /\ resp.outcome = "InsufficientStock")
          => resp.wrote = {}

\* C5: once a Registration holds a ticket id no step changes it
C5_TicketIssuedOnce ==
    [][\A g \in RegIds :
          regs[g].ticketId # NoTicket => regs'[g].ticketId = regs[g].ticketId]_vars

\* C6: a Registration holds a ticket id iff its payment status is
\* Not Applicable or Approved
C6_TicketIffConfirmed ==
    \A g \in RegIds :
        (regs[g].ticketId # NoTicket)
            <=> (regs[g].paymentStatus \in {"Not Applicable", "Approved"})

\* C7: the payment status changes only from Pending, to Approved or Rejected
C7_OnlyFromPending ==
    [][\A g \in RegIds :
          regs'[g].paymentStatus # regs[g].paymentStatus
              => /\ regs[g].paymentStatus = "Pending"
                 /\ regs'[g].paymentStatus \in {"Approved", "Rejected"}]_vars

\* C8: a register, place-order or approve call that is answered with a
\* rejection or an error has written nothing
C8_FailureWritesNothing ==
    (resp.kind \in {"register", "order", "approve"}
        /\ resp.outcome \notin Placed \cup {"Approved"})
      => resp.wrote = {}

\* C9: a scan that finds its ticket's registration of the scanned event not
\* attended marks it attended with the time of the scan and reports
\* attendance-confirmed with that time; a scan that finds it attended
\* reports a duplicate scan carrying the stored timestamp and writes
\* nothing; and only a manual override changes the attendance of a
\* registration that is attended
C9_ScanIdempotent ==
    [][/\ \A r \in Req :
            (req[r].pc = "scan_find" /\ req'[r] # req[r]) =>
               LET found == RegsWithTicket(req[r].ticketId)
               IN \A g \in found :
                    regs[g].eventId = req[r].ev =>
                       IF regs[g].attended
                       THEN /\ resp'.outcome = "DuplicateScan"
                            /\ resp'.shown = regs[g].attendanceTimestamp
                            /\ regs' = regs
                       ELSE /\ req'[r].pc = "scan_save"
                            /\ req'[r].regId = g
                            /\ req'[r].ts = now
       /\ \A r \in Req :
            (req[r].pc = "scan_save" /\ req'[r] # req[r]) =>
               /\ resp'.outcome = "AttendanceMarked"
               /\ resp'.shown = req[r].ts
               /\ regs'[req[r].regId].attended
               /\ regs'[req[r].regId].attendanceTimestamp = req[r].ts
       /\ \A g \in RegIds :
            (regs[g].attended /\ regs'[g] # regs[g]) => resp'.kind = "override"
      ]_vars

\* a repeated scan reported the timestamp of an earlier scan
C9_Witness ==
    /\ resp.kind = "scan"
    /\ resp.outcome = "DuplicateScan"
    /\ resp.shown # Undefined
    /\ resp.shown < now
    /\ ~regs[resp.regId].manualOverride
    /\ regs[resp.regId].attendanceTimestamp = resp.shown

\* C10: a scan reports attendance-confirmed only for a registration that
\* was not attended when the scan wrote it (no override involved)
C10_ScanFlipsOnce ==
    [][(Responded /\ resp'.kind = "scan" /\ resp'.outcome = "AttendanceMarked"
           /\ ~regs[resp'.regId].manualOverride)
         => ~regs[resp'.regId].attended]_vars

\* C11: a scan whose ticket belongs to a Registration of another event is
\* answered with the wrong-event outcome, a ticket nobody holds with
\* ticket-not-found, and neither changes any Registration
C11_WrongEventScan ==
    [][\A r \in Req :
          (req[r].pc = "scan_find" /\ req'[r] # req[r]) =>
             LET found == RegsWithTicket(req[r].ticketId)
             IN /\ found = {} =>
                     resp'.outcome = "TicketNotFound" /\ regs' = regs
                /\ \A g \in found :
                     regs[g].eventId # req[r].ev =>
                        /\ resp'.outcome = "WrongEvent"
                        /\ resp'.wrote = {}
                        /\ regs' = regs]_vars

\* a ticket of one event was presented at the scan endpoint of another
C11_Witness ==
    /\ resp.kind = "scan"
    /\ resp.outcome = "WrongEvent"
    /\ resp.regId \in RegIds
    /\ regs[resp.regId].eventId # resp.ev
    /\ regs[resp.regId].ticketId = resp.ticketId
    /\ ~regs[resp.regId].attended

\* C12: an override by the owning organizer with a boolean value and a
\* reason, for a Registration of the event, goes through whatever the prior
\* attendance state, stores the value, the override flag, the reason and
\* the actor together, the time of the call as timestamp when the value is
\* true and no timestamp when it is false; a body without a reason or with
\* a non-boolean value never gets past validation and changes nothing
C12_OverrideAlwaysApplies ==
    [][/\ \A r \in Req :
            (req'[r].kind = "override" /\ req'[r].pc # "idle") =>
                req'[r].attended \in {"true", "false"} /\ req'[r].reason
       /\ \A r \in Req :
            (req[r].pc = "ovr_find" /\ req'[r] # req[r]
                /\ req[r].regId \in RegIds
                /\ regs[req[r].regId].eventId = req[r].ev) =>
               /\ req'[r].pc = "ovr_save"
               /\ req'[r].ts = IF req[r].attended = "true" THEN now ELSE Undefined
       /\ \A r \in Req :
            (req[r].pc = "ovr_save" /\ req'[r] # req[r]) =>
               LET g == req[r].regId
               IN /\ resp'.outcome = "Overridden"
                  /\ regs'[g].attended = (req[r].attended = "true")
                  /\ regs'[g].attendanceTimestamp = req[r].ts
                  /\ regs'[g].manualOverride
                  /\ regs'[g].overrideReason = req[r].reason
                  /\ regs'[g].overriddenBy = req[r].who
       /\ (Responded /\ resp'.kind = "override" /\ resp'.outcome # "Overridden")
            => regs' = regs
      ]_vars

\* an override recorded not-attended: audit fields set, timestamp cleared
C12_Witness ==
    /\ resp.kind = "override"
    /\ resp.outcome = "Overridden"
    /\ ~regs[resp.regId].attended
    /\ regs[resp.regId].attendanceTimestamp = Undefined
    /\ regs[resp.regId].manualOverride
    /\ regs[resp.regId].overrideReason
    /\ regs[resp.regId].overriddenBy = resp.who

\* ---- edits: the request as it was received
\* slot r was admitted to the save by the step just taken
EditAdmitted(r) == req[r].pc = "idle" /\ req'[r].pc = "edit_save"

\* the owner's edit was refused before the save by the step just taken
EditRefused ==
    Quiet /\ Responded /\ resp'.kind = "edit" /\ resp'.outcome # "Forbidden"

\* slot r took its save step
EditSaved(r) == req[r].pc = "edit_save" /\ req'[r] # req[r]

\* the effective status the handler of slot r computed when it was called
StatusAtCall(rec) == getEffectiveStatusAt(rec.event, rec.ts)

Has(body, k) == k \in BodyKeys(body)

\* the body narrows the deadline or the limit of the stored event
Narrows(event, body) ==
    \/ /\ Has(body, "registrationDeadline")
       /\ BodyValue(body, "registrationDeadline") < event.registrationDeadline
    \/ /\ Has(body, "registrationLimit")
       /\ event.registrationLimit # Undefined
       /\ BodyValue(body, "registrationLimit") < event.registrationLimit

\* the body touches only the deadline and the limit and narrows neither
WideningOnly(event, body) ==
    /\ body # <<>>
    /\ BodyKeys(body) \subseteq {"registrationDeadline", "registrationLimit"}
    /\ Has(body, "registrationLimit") => event.registrationLimit # Undefined
    /\ ~Narrows(event, body)

\* C13: while the effective status is Published an edit is admitted only if
\* every field is one of description, registrationDeadline,
\* registrationLimit, statusOverride and neither the deadline nor the limit
\* is narrowed; a refused edit changes nothing; an edit that only widens the
\* deadline or the limit is never refused and its values are stored
C13_PublishedEdit ==
    [][/\ \A r \in Req :
            (EditAdmitted(r) /\ getEffectiveStatus(events[req'[r].ev]) = "Published") =>
               /\ BodyKeys(req'[r].body) \subseteq
                     {"description", "registrationDeadline", "registrationLimit",
                      "statusOverride"}
               /\ ~Narrows(events[req'[r].ev], req'[r].body)
       /\ (EditRefused /\ getEffectiveStatus(events[resp'.ev]) = "Published") =>
               /\ events' = events
               /\ ~WideningOnly(events[resp'.ev], resp'.body)
       /\ \A r \in Req :
            (EditSaved(r) /\ StatusAtCall(req[r]) = "Published"
                /\ WideningOnly(req[r].event, req[r].body)) =>
               /\ resp'.outcome = "Saved"
               /\ \A k \in BodyKeys(req[r].body) :
                     events'[req[r].ev][k] = BodyValue(req[r].body, k)
      ]_vars

\* the deadline of a Published event was extended and stored
C13_Witness ==
    /\ resp.kind = "edit"
    /\ resp.outcome = "Saved"
    /\ resp.body = <<<<"registrationDeadline", MaxTime>>>>
    /\ resp.wrote = {"event"}
    /\ events[resp.ev].registrationDeadline = MaxTime
    /\ getEffectiveStatus(events[resp.ev]) = "Published"

\* the body holds something the status at the call does not allow
Illegal(status, event, body) ==
    \/ Has(body, "statusOverride") /\ BodyValue(body, "statusOverride") \notin Statuses
    \/ /\ status = "Published"
       /\ \/ ~(BodyKeys(body) \subseteq
                  {"description", "registrationDeadline", "registrationLimit",
                   "statusOverride"})
          \/ Narrows(event, body)
    \/ /\ status \in {"Ongoing", "Completed"}
       /\ BodyKeys(body) # {"statusOverride"}
    \/ status = "Closed"

C15_StatusOnlyEdit ==
    [][/\ \A r \in Req :
            (EditAdmitted(r)
                /\ getEffectiveStatus(events[req'[r].ev]) \in {"Ongoing", "Completed"}) =>
               /\ Len(req'[r].body) = 1
               /\ req'[r].body[1][1] = "statusOverride"
       /\ (EditRefused
             /\ getEffectiveStatus(events[resp'.ev]) \in {"Ongoing", "Completed"}) =>
               /\ resp'.outcome = "StatusOnly"
               /\ BodyKeys(resp'.body) # {"statusOverride"}
               /\ events' = events
       /\ \A r \in Req :
            (EditSaved(r) /\ StatusAtCall(req[r]) \in {"Ongoing", "Completed"}) =>
               \A k \in DOMAIN events[req[r].ev] :
                  events'[req[r].ev][k] # events[req[r].ev][k] => k = "statusOverride"
      ]_vars

\* a body with statusOverride and one more field was refused for an event
\* that is Ongoing or Completed
C15_Witness ==
    /\ resp.kind = "edit"
    /\ resp.outcome = "StatusOnly"
    /\ Len(resp.body) = 2
    /\ Has(resp.body, "statusOverride")
    /\ getEffectiveStatus(events[resp.ev]) \in {"Ongoing", "Completed"}

\* C16: an edit of an event whose effective status is Closed is never
\* answered with success
C16_ClosedRejectsEdits ==
    [][\A r \in Req :
          (EditSaved(r) /\ StatusAtCall(req[r]) = "Closed")
             => resp'.outcome # "Saved"]_vars

\* ---- effective status
Rank(status) ==
    CASE status = "Published" -> 1 [] status = "Ongoing" -> 2
      [] status = "Completed" -> 3 [] OTHER -> 0

C18_TimeDerivedStatus ==
    \A e \in Events :
        LET ev == events[e]
        IN (ev.statusOverride \in {"Published", "Ongoing"}
               /\ ev.startDate <= ev.endDate) =>
             /\ \A t \in 0..MaxTime :
                  /\ t < ev.startDate => getEffectiveStatusAt(ev, t) = "Published"
                  /\ (ev.startDate <= t /\ t <= ev.endDate)
                        => getEffectiveStatusAt(ev, t) = "Ongoing"
                  /\ t > ev.endDate => getEffectiveStatusAt(ev, t) = "Completed"
             /\ \A t \in 0..MaxTime : \A u \in t..MaxTime :
                  Rank(getEffectiveStatusAt(ev, t)) <= Rank(getEffectiveStatusAt(ev, u))

\* an event whose override still says Published is Ongoing on its end date
C18_Witness ==
    \E e \in Events :
        /\ events[e].statusOverride = "Published"
        /\ events[e].startDate < events[e].endDate
        /\ now = events[e].endDate
        /\ getEffectiveStatus(events[e]) = "Ongoing"

\* ---- registration gates
\* slot r was admitted past the checks of register or place order
Admitted(r) ==
    /\ req[r].pc = "idle"
    /\ req'[r].pc # "idle"
    /\ req'[r].kind \in {"register", "order"}

\* a register or place-order call was refused by its first checks
RefusedAtCall ==
    Responded /\ req' = req /\ resp'.kind \in {"register", "order"}

\* C19: a register or place-order call gets past its checks only if, at the
\* call, the effective status is Published or Ongoing and now is not after
\* the registration deadline; only a call that got past them creates a
\* Registration; a call refused for the phase or the deadline has written
\* nothing
C19_PhaseAndDeadlineGate ==
    [][/\ \A r \in Req :
            Admitted(r) =>
               /\ getEffectiveStatus(events[req'[r].ev]) \in {"Published", "Ongoing"}
               /\ now <= events[req'[r].ev].registrationDeadline
       /\ Len(regs') > Len(regs) =>
            \E r \in Req : /\ req[r].kind \in {"register", "order"}
                           /\ req[r].pc \in {"reg_create", "ord_create", "ord_pending"}
                           /\ req'[r] # req[r]
                           /\ regs'[Len(regs')].eventId = req[r].ev
       /\ RefusedAtCall => (regs' = regs /\ events' = events /\ resp'.wrote = {})
       /\ (RefusedAtCall
             /\ \/ getEffectiveStatus(events[resp'.ev]) \notin {"Published", "Ongoing"}
                \/ now > events[resp'.ev].registrationDeadline)
            => resp'.outcome \in {"WrongKind", "InvalidPhase", "DeadlinePassed"}
      ]_vars

\* a registration for an Ongoing event was refused after its deadline
C19_Witness ==
    /\ resp.kind = "register"
    /\ resp.outcome = "DeadlinePassed"
    /\ getEffectiveStatus(events[resp.ev]) = "Ongoing"
    /\ now > events[resp.ev].registrationDeadline
    /\ RegsOf(resp.ev, resp.who) = {}

\* C20: a register call for an event with a limit L >= 0 gets past the
\* capacity check only while the count of the event's Registrations is
\* strictly less than L
C20_CapacityGate ==
    [][\A r \in Req :
          (req'[r].pc = "reg_find" /\ req[r].pc # "reg_find"
              /\ req'[r].event.registrationLimit # Undefined)
            => countDocuments(req'[r].ev) < req'[r].event.registrationLimit]_vars

\* C21: for every participant and merchandise event the total quantity of
\* the participant's orders never exceeds purchaseLimitPerUser; an order
\* whose quantity plus the prior total exceeds the limit is rejected at the
\* purchase-limit check and nothing is persisted
C21_PurchaseLimit ==
    /\ [](\A e \in Events, p \in Participants :
            (events[e] # NoDoc /\ events[e].type = "merchandise")
              => SumQty(RegsOf(e, p)) <= events[e].purchaseLimitPerUser)
    /\ [][\A r \in Req :
            (req[r].pc = "ord_past" /\ req'[r] # req[r]
               /\ SumQty(RegsOf(req[r].ev, req[r].who)) + req[r].quantity
                    > req[r].event.purchaseLimitPerUser)
              => /\ resp'.outcome = "PurchaseLimit"
                 /\ resp'.wrote = {}
                 /\ regs' = regs /\ events' = events]_vars

\* an order of two units was refused by a limit of one, nothing stored
C21_Witness ==
    /\ resp.kind = "order"
    /\ resp.outcome = "PurchaseLimit"
    /\ resp.wrote = {}
    /\ RegsOf(resp.ev, resp.who) = {}

\* C22: every merchandise Registration has quantity >= 1 (an order of
\* quantity 0 or of a negative quantity creates nothing), and no order or
\* approval step ever increases the stock of a variant
C22_PositiveQuantity ==
    /\ [](\A g \in RegIds : regs[g].variantId # "none" => regs[g].quantity >= 1)
    /\ [][\A e \in Events : \A v \in Variants :
            (events[e] # NoDoc /\ events[e].type = "merchandise")
              => events'[e].merchandiseVariants[v]
                   <= events[e].merchandiseVariants[v]]_vars

\* C23: a delete is admitted past its checks only when the caller owns the
\* event and the event's effective status is Draft at the call; a delete
\* of an event in any other status, or by another organizer, is rejected
\* and leaves the event and all Registrations stored unchanged; an event
\* is removed only by an admitted delete
C23_DeleteOnlyDraft ==
    [][/\ \A r \in Req :
            (req[r].pc = "idle" /\ req'[r].pc = "del_event")
              => /\ events[req'[r].ev].organizerId = req'[r].who
                 /\ getEffectiveStatus(events[req'[r].ev]) = "Draft"
       /\ (Responded /\ resp'.kind = "delete" /\ (\A r \in Req : req'[r] = req[r]))
            => /\ resp'.outcome \in {"NotFound", "Forbidden", "NotDraft"}
               /\ events' = events /\ regs' = regs /\ resp'.wrote = {}
               /\ (events[resp'.ev] # NoDoc
                     /\ getEffectiveStatus(events[resp'.ev]) # "Draft")
                    => resp'.outcome \in {"Forbidden", "NotDraft"}
       /\ \A e \in Events :
            (events[e] # NoDoc /\ events'[e] = NoDoc)
              => \E r \in Req : /\ req[r].pc = "del_event" /\ req[r].ev = e
                                /\ req'[r].pc = "del_regs"
       /\ (Responded /\ resp'.kind = "delete" /\ resp'.outcome = "Deleted")
            => \E r \in Req : req[r].pc = "del_regs" /\ req[r].ev = resp'.ev
      ]_vars

\* the owner's delete of a Published event that has a registration was
\* refused, event and registration still stored
C23_Witness ==
    /\ resp.kind = "delete"
    /\ resp.outcome = "NotDraft"
    /\ events[resp.ev] # NoDoc
    /\ events[resp.ev].organizerId = resp.who
    /\ \E p \in Participants : RegsOf(resp.ev, p) # {}

\* C24: every Registration references an event that exists; once the
\* deletes have finished no Registration of a deleted event remains, also
\* when a register request read the event before the delete and inserts
\* after it
C24_NoOrphanRegistration ==
    []((\A r \in Req : req[r].kind # "delete")
         => \A g \in RegIds : events[regs[g].eventId] # NoDoc)

\* what is stored of organizer o: the account, the profile, the events
\* created for o, their registrations and their forum messages
OwnedEvents(o) == {e \in Events : asCreated[e].organizerId = o}

AllStored(o) ==
    /\ o \in accounts.users /\ o \in accounts.organizers
    /\ \A e \in OwnedEvents(o) :
         /\ events[e] = asCreated[e]
         /\ e \in accounts.messages
         /\ \E g \in RegIds : regs[g].eventId = e

NoneStored(o) ==
    /\ o \notin accounts.users /\ o \notin accounts.organizers
    /\ \A e \in OwnedEvents(o) :
         /\ events[e] = NoDoc
         /\ e \notin accounts.messages
         /\ \A g \in RegIds : regs[g].eventId # e

\* C25: the admin's deletion of an organizer account is all-or-nothing: in
\* every state the organizer's events, their registrations, their forum
\* messages, the profile and the account are either all stored or all
\* deleted; a deletion that fails part-way through changes nothing, and
\* one that answers success has deleted them all
C25_AllOrNothing ==
    /\ [](\A o \in Organizers : AllStored(o) \/ NoneStored(o))
    /\ [][(Responded /\ resp'.kind = "adminDelete")
            => IF resp'.outcome = "Deleted"
               THEN \A e \in OwnedEvents(resp'.who) :
                      /\ events'[e] = NoDoc
                      /\ e \notin accounts'.messages
                      /\ resp'.who \notin accounts'.users \cup accounts'.organizers
                      /\ \A g \in DOMAIN regs' : regs'[g].eventId # e
               ELSE events' = events /\ regs' = regs /\ accounts' = accounts]_vars

\* a deletion failed after the deletes of messages, registrations and
\* events had been issued, and everything of the organizer is still stored
C25_Witness ==
    /\ resp.kind = "adminDelete"
    /\ resp.outcome = "ServerError"
    /\ Len(resp.ops) >= 3
    /\ AllStored(resp.who)

\* C26: once a registration for a normal event has succeeded and the
\* event's form-locked flag is true, no later operation, in any status,
\* makes the flag false again or changes the event's custom form
C26_FormLockPermanent ==
    [][\A e \in Events :
          (/\ events[e] # NoDoc /\ events[e].type = "normal"
           /\ events[e].isFormLocked
           /\ \E p \in Participants : issued[e][p] > 0)
            => /\ events'[e].isFormLocked
               /\ events'[e].customForm = events[e].customForm]_vars

\* what the operation answered as success is stored after the step
Persisted(rec) ==
    CASE rec.kind = "register" ->
           \E g \in DOMAIN regs' : /\ regs'[g].eventId = rec.ev
                                   /\ regs'[g].participantId = rec.who
                                   /\ regs'[g].ticketId = rec.ticketId
      [] rec.kind = "order" ->
           \E g \in DOMAIN regs' : /\ regs'[g].eventId = rec.ev
                                   /\ regs'[g].participantId = rec.who
                                   /\ regs'[g].ticketId = rec.ticketId
                                   /\ regs'[g].paymentStatus = "Approved"
      [] rec.kind = "approve" ->
           /\ regs'[rec.regId].paymentStatus = "Approved"
           /\ regs'[rec.regId].ticketId = rec.ticketId
      [] rec.kind = "edit" -> events'[rec.ev].statusOverride = "Published"
      [] OTHER -> FALSE

\* C28: register, place order, approve and edit answer their success
\* result, and what they confirmed stays stored, whether the email or
\* webhook collaborator succeeds or fails
C28_NotificationBestEffort ==
    [][(Responded /\ resp'.notice # "none")
         => /\ resp'.outcome = CASE resp'.kind = "register" -> "Registered"
                                 [] resp'.kind = "order" -> "OrderPlaced"
                                 [] resp'.kind = "approve" -> "Approved"
                                 [] resp'.kind = "edit" -> "Saved"
                                 [] OTHER -> "none"
            /\ Persisted(resp')]_vars

\* an approval whose ticket email failed was answered as approved, the
\* order stored as Approved with its ticket
C28_Witness ==
    /\ resp.kind = "approve"
    /\ resp.notice = "failed"
    /\ resp.outcome = "Approved"
    /\ resp.regId \in RegIds
    /\ regs[resp.regId].paymentStatus = "Approved"
    /\ regs[resp.regId].ticketId = resp.ticketId

\* C27: the published notification is sent exactly once per Draft ->
\* Published transition of the stored status: an edit sends it only in the
\* step in which its save changes the stored status from Draft to
\* Published, so two concurrent publish edits of one Draft event send one
C27_NotifyOncePerTransition ==
    [][(Responded /\ resp'.kind = "edit" /\ resp'.notice # "none")
         => /\ events[resp'.ev].statusOverride = "Draft"
            /\ events'[resp'.ev].statusOverride = "Published"]_vars

\* C29: a register or place-order insert that is refused by the unique
\* index on (event, participant) is answered with the duplicate
\* registration error, as a duplicate found by the prior read is
C29_RefusedInsertIsDuplicate ==
    [][\A r \in Req :
          (/\ req[r].pc \in {"reg_create", "ord_create", "ord_pending"}
           /\ req'[r] # req[r]
           /\ RegsOf(req[r].ev, req[r].who) # {})
            => resp'.outcome = "Duplicate"]_vars

\* C30: while an event stays Published its stored registrationDeadline and
\* registrationLimit never decrease, whatever the interleaving of
\* concurrent edits
C30_PublishedOnlyWidens ==
    [][\A e \in Events :
          (/\ events[e] # NoDoc /\ events'[e] # NoDoc
           /\ getEffectiveStatus(events[e]) = "Published"
           /\ getEffectiveStatusAt(events'[e], now') = "Published")
            => /\ events'[e].registrationDeadline >= events[e].registrationDeadline
               /\ events'[e].registrationLimit >= events[e].registrationLimit]_vars

\* C31: in every reachable state no two Registrations hold the same ticket
\* id, across all events and both issuance paths (at registration or
\* order, and at approval)
C31_TicketsUnique ==
    \A g \in RegIds : \A h \in RegIds :
        (g # h /\ regs[g].ticketId # NoTicket)
          => regs[g].ticketId # regs[h].ticketId

\* an approval drew a ticket id that a registration already holds and was
\* refused; tickets issued at registration and at approval are stored
C31_Witness ==
    /\ resp.kind = "approve"
    /\ resp.outcome = "ServerError"
    /\ \E g \in RegIds : regs[g].paymentStatus = "Approved"
    /\ \E g \in RegIds : regs[g].paymentStatus = "Not Applicable"
                           /\ regs[g].ticketId # NoTicket

\* C34: in every reachable state an event whose effective status is Draft
\* has no Registrations, so the delete of a Draft event never deletes a
\* Registration that holds an issued ticket
C34_DraftHasNoRegistrations ==
    /\ [](\A e \in Events :
            (events[e] # NoDoc /\ getEffectiveStatus(events[e]) = "Draft")
              => \A g \in RegIds : regs[g].eventId # e)
    /\ [][\A r \in Req :
            (req[r].pc = "del_regs" /\ req'[r] # req[r])
              => \A g \in RegIds :
                   regs[g].eventId = req[r].ev => regs[g].ticketId = NoTicket]_vars

\* C38: every transaction the admin's organizer deletion starts has been
\* committed or aborted, and its session ended, when the handler answers,
\* on every path through the handler
C38_TransactionClosed ==
    [][(Responded /\ resp'.kind = "adminDelete")
         => resp'.session \in {"committed", "aborted"}]_vars

\* the operations of an organizer on an event
OrganizerOps == {"edit", "delete", "approve", "reject", "scan", "override"}

\* the answered request was issued on a stored event by an organizer who
\* does not own it
ByStranger(rec) ==
    /\ rec.kind \in OrganizerOps
    /\ events[rec.ev] # NoDoc
    /\ events[rec.ev].organizerId # rec.who

\* C32 as stated: every organizer operation on an event issued by an
\* organizer who does not own it is rejected as not authorized and leaves
\* the event, its stock and all Registrations unchanged
C32_StrangerNotAuthorized ==
    [][(Responded /\ ByStranger(resp'))
         => /\ resp'.outcome = "Forbidden"
            /\ events' = events /\ regs' = regs]_vars

\* C32, amended: every organizer operation on an event issued by an
\* organizer who does not own it is rejected before any handler step that
\* reads or writes a Registration and leaves events and Registrations
\* unchanged; it is rejected as not authorized, except that a scan without
\* ticket id and an override without boolean attended or without reason
\* are rejected as invalid first
C32_StrangerRejected ==
    /\ [](\A r \in Req :
            (req[r].kind \in OrganizerOps /\ req[r].pc # "idle")
              => req[r].event.organizerId = req[r].who)
    /\ [][(Responded /\ ByStranger(resp'))
            => /\ req' = req
               /\ events' = events /\ regs' = regs /\ resp'.wrote = {}
               /\ resp'.outcome \in {"Forbidden", "ValidationError"}
               /\ resp'.outcome = "ValidationError"
                    => \/ resp'.kind = "scan" /\ resp'.ticketId = NoTicket
                       \/ resp'.kind = "override"
                            /\ (resp'.attended = "other" \/ ~resp'.reason)]_vars

\* the approval of a Pending order by an organizer who does not own the
\* event was answered not authorized, the order is still Pending
C32_Witness ==
    /\ resp.kind = "approve"
    /\ resp.outcome = "Forbidden"
    /\ ByStranger(resp)
    /\ resp.regId \in RegIds
    /\ regs[resp.regId].paymentStatus = "Pending"
    /\ regs[resp.regId].ticketId = NoTicket

\* C35: in every reachable state a Registration marked attended holds a
\* ticket id, whether attendance was set by scan or by manual override
C35_AttendedHasTicket ==
    \A g \in RegIds : regs[g].attended => regs[g].ticketId # NoTicket


\* the request in slot r decides on a Pending order of its event
DecidesPending(r) ==
    /\ req[r].regId \in RegIds
    /\ regs[req[r].regId].eventId = req[r].ev
    /\ regs[req[r].regId].paymentStatus = "Pending"

\* C37: approving or rejecting a Pending order does not depend on the
\* event's effective status or registration deadline: whatever they are, the
\* owner's approval of a Pending order with enough stock decrements the
\* stock (the handler's copy, then the stored event) and issues the ticket
\* unless the ticket index refuses it, the owner's rejection stores
\* Rejected, and no decision is ever refused for phase or deadline
C37_DecisionIgnoresPhase ==
    [][/\ \A r \in Req :
            (At(r, "app_find") /\ req'[r] # req[r] /\ DecidesPending(r)
               /\ req[r].event.merchandiseVariants[regs[req[r].regId].variantId]
                    >= regs[req[r].regId].quantity)
              => /\ req'[r].pc = "app_evsave"
                 /\ req'[r].event.merchandiseVariants[regs[req[r].regId].variantId]
                      = req[r].event.merchandiseVariants[regs[req[r].regId].variantId]
                          - regs[req[r].regId].quantity
       /\ \A r \in Req :
            (At(r, "app_evsave") /\ req'[r] # req[r] /\ events[req[r].ev] # NoDoc)
              => /\ req'[r].pc = "app_regsave"
                 /\ events'[req[r].ev].merchandiseVariants[req[r].variantId]
                      = req[r].event.merchandiseVariants[req[r].variantId]
       /\ \A r \in Req :
            (At(r, "app_regsave") /\ req'[r] # req[r] /\ resp'.outcome # "ServerError")
              => /\ resp'.outcome = "Approved"
                 /\ regs'[req[r].regId].paymentStatus = "Approved"
                 /\ regs'[req[r].regId].ticketId # NoTicket
       /\ \A r \in Req :
            (At(r, "rej_find") /\ req'[r] # req[r] /\ DecidesPending(r))
              => req'[r].pc = "rej_save"
       /\ \A r \in Req :
            (At(r, "rej_save") /\ req'[r] # req[r])
              => /\ resp'.outcome = "Rejected"
                 /\ regs'[req[r].regId].paymentStatus = "Rejected"
       /\ (Responded /\ resp'.kind \in {"approve", "reject"})
            => resp'.outcome \notin {"InvalidPhase", "DeadlinePassed", "Closed"}]_vars

\* an order was approved, with ticket and stock decrement, on an event that
\* is Completed and whose registration deadline has passed
C37_Witness ==
    /\ resp.kind = "approve"
    /\ resp.outcome = "Approved"
    /\ "stock" \in resp.wrote
    /\ regs[resp.regId].ticketId # NoTicket
    /\ getEffectiveStatus(events[resp.ev]) = "Completed"
    /\ now > events[resp.ev].registrationDeadline


\* C36: a normal event with a registration limit set never has more
\* Registrations than the limit, in every state reached by registrations
\* and edits made one at a time
C36_WithinLimit ==
    \A e \in Events :
        (/\ events[e] # NoDoc
         /\ events[e].type = "normal"
         /\ events[e].registrationLimit # Undefined)
          => countDocuments(e) <= events[e].registrationLimit


\* C33: create event always stores the new event with statusOverride Draft
\* and with the caller's own organizer as owner, for every request body,
\* including bodies that carry a statusOverride or an organizerId field
C33_CreatedDraftOwned ==
    [][\A e \in Events :
         (events[e] = NoDoc /\ events'[e] # NoDoc)
           => /\ resp'.kind = "create" /\ resp'.ev = e /\ resp'.outcome = "Created"
              /\ events'[e].statusOverride = "Draft"
              /\ events'[e].organizerId = resp'.who
              /\ \A k \in BodyKeys(resp'.body) \ {"statusOverride", "organizerId"} :
                   events'[e][k] = BodyValue(resp'.body, k)]_vars

\* a create whose body asked for Published and for another organizer as
\* owner was answered 201; the event is stored Draft and owned by the caller
C33_Witness ==
    /\ resp.kind = "create"
    /\ resp.outcome = "Created"
    /\ resp.who = "o1"
    /\ resp.body = <<<<"statusOverride", "Published">>, <<"organizerId", "o2">>>>
    /\ events[resp.ev].statusOverride = "Draft"
    /\ events[resp.ev].organizerId = "o1"


\* C39: a password reset request is actioned at most once: its status
\* changes only from Pending, to Approved or Rejected; the organizer's
\* password is replaced at most once for the request, never for a request
\* that is Rejected, and exactly once for a request that is Approved once
\* no decision is in flight, also when decisions run concurrently
C39_ActionedOnce ==
    /\ [](\A o \in accounts.resets :
            /\ accounts.passwords[o] <= 1
            /\ accounts.resetStatus[o] = "Rejected" => accounts.passwords[o] = 0
            /\ (accounts.resetStatus[o] = "Approved" /\ Quiet)
                 => accounts.passwords[o] = 1)
    /\ [][\A o \in Organizers :
            accounts'.resetStatus[o] # accounts.resetStatus[o]
              => /\ accounts.resetStatus[o] = "Pending"
                 /\ accounts'.resetStatus[o] \in {"Approved", "Rejected"}]_vars


\* C40: the pinned flag of a forum message changes only in a step of a pin
\* request whose caller is the organizer owning the event the message
\* belongs to (the message of forum e has id e); a pin request naming the
\* caller's own event and a message of another event's forum does not
\* change that message
C40_PinnedByOwnerOnly ==
    [][\A m \in Events :
         accounts'.isPinned[m] # accounts.isPinned[m]
           => \E r \in Req :
                /\ req[r].pc = "pin_save"
                /\ req[r].copy.id = m
                /\ events[m] # NoDoc
                /\ events[m].organizerId = req[r].who]_vars
====
